---- MODULE Spec2Model ----
(***************************************************************************)
(* Model of the voyage-ai trip planning backend: the chat endpoint         *)
(* (api/trips.py), the LangGraph workflow (agent/graph.py) and its nodes   *)
(* (agent/nodes/*.py), with the per-process MemorySaver checkpointer and   *)
(* the shared MongoDB collections written by the finalizer.                *)
(*                                                                         *)
(* Text that the code inspects character by character (chat messages) is   *)
(* a sequence of one-character strings.  Python values that the code only  *)
(* tests for truthiness use 0, "" or <<>> for "absent / None / empty".     *)
(* A date is a day number; 0 is an absent date and BadDate a string that   *)
(* datetime.strptime rejects.                                              *)
(***************************************************************************)
EXTENDS Integers, Sequences, FiniteSets, TLC

(***************************************************************************)
(* Bounds of the model.                                                    *)
(***************************************************************************)
MaxRequests == 5
MaxToolCalls == 3
Today == 100

(***************************************************************************)
(* Program constants.                                                      *)
(***************************************************************************)
MAX_CLARIFICATION_ROUNDS == 3
DefaultDuration == 5
DefaultBudget == 2000
DefaultStartOffset == 30
DefaultTravelers == 1
MAX_TOOL_ROUNDS == 10

BadDate == -1

(***************************************************************************)
(* str.strip() and str.lower() on character sequences.                     *)
(***************************************************************************)
LowerChar(c) ==
  CASE c = "A" -> "a" [] c = "E" -> "e" [] c = "G" -> "g" [] c = "K" -> "k"
    [] c = "L" -> "l" [] c = "M" -> "m" [] c = "O" -> "o" [] c = "P" -> "p"
    [] c = "S" -> "s" [] c = "T" -> "t" [] c = "Y" -> "y"
    [] OTHER -> c

Lower(s) == [i \in 1..Len(s) |-> LowerChar(s[i])]

IsSpace(c) == c \in {" ", "\t", "\n"}

RECURSIVE LStrip(_)
LStrip(s) == IF s # <<>> /\ IsSpace(Head(s)) THEN LStrip(Tail(s)) ELSE s

RECURSIVE RStrip(_)
RStrip(s) ==
  IF s # <<>> /\ IsSpace(s[Len(s)]) THEN RStrip(SubSeq(s, 1, Len(s) - 1)) ELSE s

Strip(s) == RStrip(LStrip(s))

(***************************************************************************)
(* The requirement set (trip_request) and the structured extraction        *)
(* (SlotFillingResponse).                                                  *)
(***************************************************************************)
SlotFields ==
  {"destination", "destination_iata", "origin", "origin_iata", "duration_days",
   "budget_min", "budget_max", "travel_group", "traveler_count", "start_date",
   "end_date", "interests", "constraints"}

StringFields == {"destination", "destination_iata", "origin", "origin_iata", "travel_group"}
ListFields == {"interests", "constraints"}

\* The falsy value of a field: what an omitted, None or empty field reads as.
Absent(f) == IF f \in StringFields THEN "" ELSE IF f \in ListFields THEN <<>> ELSE 0

\* Python truthiness of a slot value (BadDate is a non-empty string).
Truthy(f, v) == v # Absent(f)

EmptySlots == [f \in SlotFields |-> Absent(f)]

\* slots.get(f) is truthy
Has(slots, f) == Truthy(f, slots[f])

NoBudgetRange == [has |-> FALSE, min |-> 0, max |-> 0]
EmptyPreferences == [budget_range |-> NoBudgetRange, interests |-> <<>>, travel_style |-> <<>>]

\* The substring tests of _merge_with_preferences on styles[0].lower().
RECURSIVE Contains(_, _)
Contains(sub, s) ==
  IF Len(sub) > Len(s) THEN FALSE
  ELSE IF SubSeq(s, 1, Len(sub)) = sub THEN TRUE
  ELSE Contains(sub, Tail(s))

Solo == <<"s", "o", "l", "o">>
Couple == <<"c", "o", "u", "p", "l", "e">>
Romantic == <<"r", "o", "m", "a", "n", "t", "i", "c">>
Family == <<"f", "a", "m", "i", "l", "y">>

BudgetFromPreferences(slots, preferences) ==
  IF ~Has(slots, "budget_max") /\ preferences.budget_range.has
  THEN [slots EXCEPT
          !["budget_min"] = IF Has(slots, "budget_min") THEN @
                            ELSE preferences.budget_range.min,
          !["budget_max"] = IF Has(slots, "budget_max") THEN @
                            ELSE preferences.budget_range.max]
  ELSE slots

InterestsFromPreferences(slots, preferences) ==
  IF ~Has(slots, "interests") /\ preferences.interests # <<>>
  THEN [slots EXCEPT !["interests"] = preferences.interests]
  ELSE slots

\* style: styles[0].lower()
GroupOfStyle(style, otherwise) ==
  IF Contains(Solo, style) THEN "solo"
  ELSE IF Contains(Couple, style) \/ Contains(Romantic, style) THEN "couple"
  ELSE IF Contains(Family, style) THEN "family"
  ELSE otherwise

GroupFromPreferences(slots, preferences) ==
  IF ~Has(slots, "travel_group") /\ preferences.travel_style # <<>>
  THEN [slots EXCEPT !["travel_group"] = GroupOfStyle(Lower(preferences.travel_style[1]), @)]
  ELSE slots

MergeWithPreferences(slots, preferences) ==
  GroupFromPreferences(
    InterestsFromPreferences(BudgetFromPreferences(slots, preferences), preferences),
    preferences)

\* datetime.strptime(start_date, "%Y-%m-%d") succeeds
ParsesAsDate(d) == d > 0

\* An end date that is moved on by the duration each time it is computed.
ComputeEndDateExtending(slots) ==
  IF Has(slots, "start_date") /\ Has(slots, "duration_days")
  THEN [slots EXCEPT !["end_date"] =
          (IF Has(slots, "end_date") THEN @ ELSE slots["start_date"])
            + slots["duration_days"]]
  ELSE slots

ComputeEndDate(slots) ==
  IF Has(slots, "start_date") /\ Has(slots, "duration_days") /\ ~Has(slots, "end_date")
  THEN IF ParsesAsDate(slots["start_date"])
       THEN [slots EXCEPT !["end_date"] = slots["start_date"] + slots["duration_days"]]
       ELSE slots
  ELSE slots

GroupDefault(group) ==
  CASE group = "solo" -> 1
    [] group = "couple" -> 2
    [] group = "family" -> 4
    [] group = "friends" -> 4
    [] OTHER -> 2

RequiredFilled(slots) ==
  /\ \A f \in {"destination", "duration_days", "start_date", "origin"} : Has(slots, f)
  /\ Has(slots, "budget_max")

\* _check_completeness returns a flag and fills the defaults in place: the pair.
DefaultGroup(slots) ==
  IF ~Has(slots, "travel_group") THEN [slots EXCEPT !["travel_group"] = "solo"] ELSE slots

DefaultTravelerCount(slots) ==
  IF ~Has(slots, "traveler_count")
  THEN [slots EXCEPT !["traveler_count"] = GroupDefault(slots["travel_group"])]
  ELSE slots

CheckCompleteness(slots) ==
  IF ~RequiredFilled(slots) THEN [complete |-> FALSE, slots |-> slots]
  ELSE [complete |-> TRUE,
        slots |-> ComputeEndDate(DefaultTravelerCount(DefaultGroup(slots)))]

MergeSlotsUnfiltered(existing, new) == [f \in SlotFields |-> new[f]]

\* merged_slots = {**existing_slots, **{k: v for k, v in new_slots.items() if v}}
MergeSlots(existing, new) ==
  [f \in SlotFields |-> IF Truthy(f, new[f]) THEN new[f] ELSE existing[f]]

ForcedDefault(f) ==
  CASE f = "destination" -> "Tokyo, Japan"
    [] f = "origin" -> "New York"
    [] f = "duration_days" -> DefaultDuration
    [] f = "start_date" -> Today + DefaultStartOffset
    [] f = "budget_max" -> DefaultBudget
    [] f = "travel_group" -> "solo"
    [] f = "traveler_count" -> DefaultTravelers

ForcedFields ==
  {"destination", "origin", "duration_days", "start_date", "budget_max",
   "travel_group", "traveler_count"}

ForceDefaults(slots) ==
  ComputeEndDate([f \in SlotFields |->
                    IF f \in ForcedFields /\ ~Has(slots, f) THEN ForcedDefault(f)
                    ELSE slots[f]])

\* The SlotFillingResponse substituted when the service's output does not parse.
ParseFailureResponse ==
  [parsed |-> FALSE, slots |-> EmptySlots, follow_up_question |-> "TROUBLE", is_complete |-> FALSE]

(***************************************************************************)
(* Session state (AgentState).  A key the state does not hold reads as the  *)
(* default its readers pass to state.get.                                  *)
(***************************************************************************)
EmptyItinerary ==
  [title |-> <<>>, total_cost_estimate |-> 0, currency |-> "", days |-> <<>>, fallback |-> FALSE]

EmptyStrategy == [summary |-> "", fallback |-> FALSE]

EmptyValues ==
  [user_id |-> "", user_preferences |-> EmptyPreferences, messages |-> <<>>,
   trip_request |-> EmptySlots, slots_complete |-> FALSE, clarification_count |-> 0,
   tool_plan |-> <<>>, tool_results |-> <<>>, trip_strategy |-> EmptyStrategy,
   itinerary |-> EmptyItinerary, review_status |-> "", review_feedback |-> <<>>,
   trip_id |-> 0, itinerary_version_id |-> 0, current_node |-> ""]

UserMsg(content) == [role |-> "user", content |-> content]
AiMsg(template) == [role |-> "ai", content |-> <<template>>]

\* The users collection, read by the initializer only.
RichPreferences ==
  [budget_range |-> [has |-> TRUE, min |-> 500, max |-> 1500],
   interests |-> <<"food">>,
   travel_style |-> << <<"R", "o", "m", "a", "n", "t", "i", "c">> >>]

InterestsOnly == [EmptyPreferences EXCEPT !.interests = <<"hiking">>]

UserPreferencesOf(user_id) ==
  CASE user_id = "u2" -> RichPreferences
    [] user_id = "u3" -> InterestsOnly
    [] OTHER -> EmptyPreferences

EmptyDb == [trips |-> <<>>, itinerary_versions |-> <<>>, conversations |-> <<>>]

(***************************************************************************)
(* The workflow nodes.  Each returns the state after its partial update is  *)
(* applied (messages through the append reducer of AgentState).            *)
(***************************************************************************)
InitializerNode(state) ==
  [state EXCEPT
     !.user_preferences = UserPreferencesOf(state.user_id),
     !.trip_request = EmptySlots,
     !.slots_complete = FALSE,
     !.clarification_count = 0,
     !.tool_plan = <<>>,
     !.tool_results = <<>>,
     !.trip_strategy = EmptyStrategy,
     !.itinerary = EmptyItinerary,
     !.trip_id = 0,
     !.itinerary_version_id = 0,
     !.current_node = "intent_slot"]

\* The content of the latest user message, "" when the log holds none.
RECURSIVE LatestUserMessage(_)
LatestUserMessage(messages) ==
  IF messages = <<>> THEN <<>>
  ELSE IF messages[Len(messages)].role = "user" THEN messages[Len(messages)].content
  ELSE LatestUserMessage(SubSeq(messages, 1, Len(messages) - 1))

\* An extraction stage that uses the answer whether or not it parsed.
SlotResponseUnchecked(response) == response

\* The parsed extraction, or its substitute.
SlotResponse(response) == IF response.parsed THEN response ELSE ParseFailureResponse

FollowUp(slot_response) ==
  IF slot_response.follow_up_question # "" THEN slot_response.follow_up_question
  ELSE "MORE_DETAILS"

ForceCompleteLate(checked, clarification_count, follow_up) ==
  IF clarification_count > MAX_CLARIFICATION_ROUNDS /\ ~checked.complete
  THEN [slots |-> ForceDefaults(checked.slots), is_complete |-> TRUE,
        forced |-> TRUE, follow_up |-> follow_up]
  ELSE [slots |-> checked.slots, is_complete |-> checked.complete,
        forced |-> FALSE, follow_up |-> follow_up]

\* The forced completion once the round counter has reached the ceiling.
ForceComplete(checked, clarification_count, follow_up) ==
  IF clarification_count >= MAX_CLARIFICATION_ROUNDS /\ ~checked.complete
  THEN [slots |-> ForceDefaults(checked.slots), is_complete |-> TRUE,
        forced |-> TRUE, follow_up |-> follow_up]
  ELSE [slots |-> checked.slots, is_complete |-> checked.complete,
        forced |-> FALSE, follow_up |-> follow_up]

\* One application of an extraction result to a requirement set: the merge,
\* the preference backfill and the fields derived by the completeness check.
ApplyExtraction(existing_slots, user_preferences, new_slots) ==
  CheckCompleteness(
    MergeWithPreferences(MergeSlots(existing_slots, new_slots), user_preferences)).slots

\* An extraction that takes the completeness flag of the service's answer.
ExtractFromTrusting(existing_slots, user_preferences, clarification_count, slot_response) ==
  ForceComplete(
    [complete |-> slot_response.is_complete,
     slots |-> CheckCompleteness(
                 MergeWithPreferences(MergeSlots(existing_slots, slot_response.slots),
                                      user_preferences)).slots],
    clarification_count, FollowUp(slot_response))

\* Merge, preference backfill, completeness check and the forced defaults.
ExtractFrom(existing_slots, user_preferences, clarification_count, slot_response) ==
  ForceComplete(
    CheckCompleteness(
      MergeWithPreferences(MergeSlots(existing_slots, slot_response.slots),
                           user_preferences)),
    clarification_count, FollowUp(slot_response))

ExtractSlots(existing_slots, user_preferences, clarification_count, response) ==
  ExtractFrom(existing_slots, user_preferences, clarification_count,
              SlotResponse(response))

\* An extraction stage that uses up the stored preferences it backfills from.
IntentSlotResultConsuming(state, x) ==
  [state EXCEPT
     !.trip_request = x.slots,
     !.slots_complete = x.is_complete,
     !.clarification_count = @ + 1,
     !.user_preferences = EmptyPreferences,
     !.current_node = IF x.is_complete THEN "planner" ELSE "intent_slot",
     !.messages = Append(@, AiMsg(IF x.is_complete THEN "GREAT" ELSE x.follow_up))]

IntentSlotResult(state, x) ==
  [state EXCEPT
     !.trip_request = x.slots,
     !.slots_complete = x.is_complete,
     !.clarification_count = @ + 1,
     !.current_node = IF x.is_complete THEN "planner" ELSE "intent_slot",
     !.messages = Append(@, AiMsg(IF x.is_complete THEN "GREAT" ELSE x.follow_up))]

IntentSlotNode(state, response) ==
  IF LatestUserMessage(state.messages) = <<>>
  THEN [state EXCEPT
          !.current_node = "intent_slot",
          !.slots_complete = FALSE,
          !.messages = Append(@, AiMsg("GREETING"))]
  ELSE IntentSlotResult(state,
         ExtractSlots(state.trip_request, state.user_preferences,
                      state.clarification_count, response))

\* plan: what the tool loop ends with (calls, results, strategy).
PlannerNode(state, plan) ==
  [state EXCEPT
     !.tool_plan = plan.tool_calls,
     !.tool_results = plan.tool_results,
     !.trip_strategy = plan.strategy,
     !.current_node = "itinerary_gen",
     !.messages = Append(@, AiMsg("PLANNING_COMPLETE"))]

\* What a planning pass takes from the state for its prompt: the feedback,
\* quoted in a revision section when it and a previous strategy are non-empty.
RevisionContext(state) ==
  [review_feedback |-> state.review_feedback,
   revision |-> state.review_feedback # <<>> /\ state.trip_strategy # EmptyStrategy]

DaysUpTo(n) == [i \in 1..n |-> i]

\* A fallback that fills in one empty day for each day of the trip.
GeneratedItineraryPadded(trip_request, synthesis) ==
  IF synthesis.parsed
  THEN [title |-> synthesis.title, total_cost_estimate |-> synthesis.total,
        currency |-> "USD", days |-> DaysUpTo(synthesis.days), fallback |-> FALSE]
  ELSE [title |-> <<"Trip to", trip_request["destination"]>>,
        total_cost_estimate |-> IF Has(trip_request, "budget_max")
                                THEN trip_request["budget_max"]
                                ELSE DefaultBudget,
        currency |-> "USD", days |-> DaysUpTo(trip_request["duration_days"]),
        fallback |-> TRUE]

GeneratedItinerary(trip_request, synthesis) ==
  IF synthesis.parsed
  THEN [title |-> synthesis.title, total_cost_estimate |-> synthesis.total,
        currency |-> "USD", days |-> DaysUpTo(synthesis.days), fallback |-> FALSE]
  ELSE [title |-> <<"Trip to", trip_request["destination"]>>,
        total_cost_estimate |-> IF Has(trip_request, "budget_max")
                                THEN trip_request["budget_max"]
                                ELSE DefaultBudget,
        currency |-> "USD", days |-> <<>>, fallback |-> TRUE]

ItineraryGenNode(state, synthesis) ==
     [state EXCEPT
        !.itinerary = GeneratedItinerary(state.trip_request, synthesis),
        !.current_node = "finalizer",
        !.messages = Append(@, AiMsg("ITINERARY_READY"))]

\* A review stage that routes without recording the decision.
ReviewNodeKeepingDecision(state) ==
  IF state.review_status = "approved"
  THEN [state EXCEPT
          !.current_node = "finalizer",
          !.messages = Append(@, AiMsg("APPROVED"))]
  ELSE [state EXCEPT
          !.current_node = "planner",
          !.messages = Append(@, AiMsg("REPLAN"))]

ReviewNode(state) ==
  IF state.review_status = "approved"
  THEN [state EXCEPT
          !.current_node = "finalizer",
          !.messages = Append(@, AiMsg("APPROVED"))]
  ELSE [state EXCEPT
          !.review_status = "revision_requested",
          !.current_node = "planner",
          !.messages = Append(@, AiMsg("REPLAN"))]

\* Inserts that number the version by its rank in the collection.
InsertAllNumbering(state, db, trip_id, version_id) ==
  [trips |-> Append(db.trips,
                  [id |-> trip_id, user_id |-> state.user_id,
                   title |-> state.itinerary.title,
                   trip_constraints |-> state.trip_request,
                   current_version |-> 1]),
   itinerary_versions |-> Append(db.itinerary_versions,
                  [id |-> version_id, trip_id |-> trip_id,
                   version_number |-> version_id,
                   itinerary |-> state.itinerary]),
   conversations |-> Append(db.conversations,
                  [trip_id |-> trip_id, user_id |-> state.user_id,
                   messages |-> state.messages])]

\* The three inserts of the finalizer; ObjectIds are the insertion ranks.
InsertAll(state, db, trip_id, version_id) ==
  [trips |-> Append(db.trips,
                  [id |-> trip_id, user_id |-> state.user_id,
                   title |-> state.itinerary.title,
                   trip_constraints |-> state.trip_request,
                   current_version |-> 1]),
   itinerary_versions |-> Append(db.itinerary_versions,
                  [id |-> version_id, trip_id |-> trip_id, version_number |-> 1,
                   itinerary |-> state.itinerary]),
   conversations |-> Append(db.conversations,
                  [trip_id |-> trip_id, user_id |-> state.user_id,
                   messages |-> state.messages])]

FinalizerDb(state, db) ==
  InsertAll(state, db, Len(db.trips) + 1, Len(db.itinerary_versions) + 1)

\* What the finalizer leaves in the database when its insert number `fail`
\* raises: the inserts before it stay.
InsertFailures == {1, 2, 3}

PartialInserts(state, db, fail) ==
  [trips |-> IF fail > 1 THEN FinalizerDb(state, db).trips ELSE db.trips,
   itinerary_versions |-> IF fail > 2 THEN FinalizerDb(state, db).itinerary_versions
                          ELSE db.itinerary_versions,
   conversations |-> db.conversations]

\* A finalizer that reports done without returning the identifiers.
FinalizerNodeNoIds(state, db) ==
  [state EXCEPT
     !.current_node = "done",
     !.messages = Append(@, AiMsg("SAVED"))]

FinalizerNode(state, db) ==
  [state EXCEPT
     !.trip_id = Len(db.trips) + 1,
     !.itinerary_version_id = Len(db.itinerary_versions) + 1,
     !.current_node = "done",
     !.messages = Append(@, AiMsg("SAVED"))]

(***************************************************************************)
(* The compiled graph: edges, routers, interrupt_before = ["review"].       *)
(***************************************************************************)
END == "__end__"

RouteAfterIntentSlotAlways(state) == "planner"

RouteAfterIntentSlot(state) == IF state.slots_complete THEN "planner" ELSE END

RouteAfterReviewAnyDecision(state) ==
  IF state.review_status # "" THEN "finalizer" ELSE "planner"

RouteAfterReview(state) == IF state.review_status = "approved" THEN "finalizer" ELSE "planner"

RouteAfter(node, state) ==
  CASE node = "initializer" -> "intent_slot"
    [] node = "intent_slot" -> RouteAfterIntentSlot(state)
    [] node = "planner" -> "itinerary_gen"
    [] node = "itinerary_gen" -> "review"
    [] node = "review" -> RouteAfterReview(state)
    [] node = "finalizer" -> END

InterruptBefore == {"review"}

\* env: what the collaborators answer during one run (the extraction response,
\* the outcome of the tool loop, the synthesis response).
ExecNode(node, state, db, env) ==
  CASE node = "initializer" -> InitializerNode(state)
    [] node = "intent_slot" -> IntentSlotNode(state, env.slot)
    [] node = "planner" -> PlannerNode(state, env.plan)
    [] node = "itinerary_gen" -> ItineraryGenNode(state, env.synthesis)
    [] node = "review" -> ReviewNode(state)
    [] node = "finalizer" -> FinalizerNode(state, db)

\* A run whose finalizer swallows the failure of an insert.
FailedRunSwallowed(state, db, writer, trace, env) ==
  [values |-> FinalizerNode(state, db), next |-> {}, writer |-> "finalizer",
   db |-> PartialInserts(state, db, env.fail), trace |-> Append(trace, "finalizer"),
   failed |-> FALSE]

\* An insert of the finalizer raises: the node returns nothing, ainvoke
\* raises, and the thread's checkpoint is still the one saved after review.
FailedRun(state, db, writer, trace, env) ==
  [values |-> state, next |-> {"finalizer"}, writer |-> writer,
   db |-> PartialInserts(state, db, env.fail), trace |-> Append(trace, "finalizer"),
   failed |-> TRUE]

\* One run of the graph from `node` until END or an interrupt.  `resumed` holds
\* for the first node of a run resumed with a None input: the interrupt before
\* it was already taken.
RECURSIVE RunGraph(_, _, _, _, _, _, _)
RECURSIVE RunOn(_, _, _, _, _)
RunGraph(node, state, db, writer, trace, env, resumed) ==
  IF node = END
  THEN [values |-> state, next |-> {}, writer |-> writer, db |-> db, trace |-> trace,
        failed |-> FALSE]
  ELSE IF node \in InterruptBefore /\ ~resumed
  THEN [values |-> state, next |-> {node}, writer |-> writer, db |-> db, trace |-> trace,
        failed |-> FALSE]
  ELSE IF node = "finalizer" /\ env.fail # 0
  THEN FailedRun(state, db, writer, trace, env)
  ELSE RunOn(node, ExecNode(node, state, db, env),
             IF node = "finalizer" THEN FinalizerDb(state, db) ELSE db, trace, env)

\* The rest of the run after `node` produced state2.
RunOn(node, state2, db2, trace, env) ==
  RunGraph(RouteAfter(node, state2), state2, db2, node, Append(trace, node), env, FALSE)

(***************************************************************************)
(* Checkpoints (MemorySaver: one store per worker process).                 *)
(***************************************************************************)
NoCheckpoint == [exists |-> FALSE, values |-> EmptyValues, next |-> {}, writer |-> ""]

Checkpoint(run) ==
  [exists |-> TRUE, values |-> run.values, next |-> run.next, writer |-> run.writer]

\* aget_state: the snapshot of a thread without a checkpoint has empty values
\* and no next node.
GetState(store, thread_id) == store[thread_id]

\* Apply a partial update through the channel reducers (messages: add).
ApplyPatch(values, patch) ==
  [values EXCEPT
     !.messages = @ \o patch.messages,
     !.review_status = IF patch.has_review THEN patch.review_status ELSE @,
     !.review_feedback = IF patch.has_review THEN patch.review_feedback ELSE @]

NextOf(succ) == IF succ = END THEN {} ELSE {succ}

\* aupdate_state(config, patch, as_node): the update is recorded as a write of
\* as_node (the last writer when as_node is not given) and the next nodes are
\* those that follow it.
UpdateAs(values, writer) ==
  [exists |-> TRUE, values |-> values,
   next |-> NextOf(IF writer = "" THEN END ELSE RouteAfter(writer, values)),
   writer |-> writer]

UpdateStateReenter(checkpoint, patch, as_node) ==
  IF as_node # ""
  THEN [exists |-> TRUE, values |-> ApplyPatch(checkpoint.values, patch),
        next |-> {as_node}, writer |-> checkpoint.writer]
  ELSE UpdateAs(ApplyPatch(checkpoint.values, patch), checkpoint.writer)

UpdateState(checkpoint, patch, as_node) ==
  UpdateAs(ApplyPatch(checkpoint.values, patch),
           IF as_node # "" THEN as_node ELSE checkpoint.writer)

\* ainvoke(None, config): resume at the checkpoint's next node, if any.
Resume(checkpoint, db, env) ==
  IF checkpoint.next = {}
  THEN [values |-> checkpoint.values, next |-> {}, writer |-> checkpoint.writer,
        db |-> db, trace |-> <<>>, failed |-> FALSE]
  ELSE RunGraph(CHOOSE n \in checkpoint.next : TRUE, checkpoint.values, db,
                checkpoint.writer, <<>>, env, TRUE)

(***************************************************************************)
(* The chat endpoint.                                                      *)
(***************************************************************************)
ApprovalTokens ==
  { <<"a", "p", "p", "r", "o", "v", "e">>, <<"y", "e", "s">>,
    <<"l", "o", "o", "k", "s", " ", "g", "o", "o", "d">>,
    <<"c", "o", "n", "f", "i", "r", "m">>, <<"o", "k">>, <<"l", "g", "t", "m">>,
    <<"p", "e", "r", "f", "e", "c", "t">> }

IsApprovalContaining(message) ==
  \E token \in ApprovalTokens : Contains(token, Lower(Strip(message)))

IsApproval(message) == Lower(Strip(message)) \in ApprovalTokens

InitialState(user_id, message) ==
  [EmptyValues EXCEPT
     !.user_id = user_id,
     !.messages = <<UserMsg(message)>>,
     !.current_node = "initializer"]

AtReview(snapshot) == "review" \in snapshot.next

ReviewPatchStripped(message) ==
  IF IsApproval(message)
  THEN [messages |-> <<UserMsg(message)>>, has_review |-> TRUE,
        review_status |-> "approved", review_feedback |-> <<>>]
  ELSE [messages |-> <<UserMsg(message)>>, has_review |-> TRUE,
        review_status |-> "revision_requested", review_feedback |-> Strip(message)]

ReviewPatch(message) ==
  IF IsApproval(message)
  THEN [messages |-> <<UserMsg(message)>>, has_review |-> TRUE,
        review_status |-> "approved", review_feedback |-> <<>>]
  ELSE [messages |-> <<UserMsg(message)>>, has_review |-> TRUE,
        review_status |-> "revision_requested", review_feedback |-> message]

MessagePatch(message) ==
  [messages |-> <<UserMsg(message)>>, has_review |-> FALSE,
   review_status |-> "", review_feedback |-> <<>>]

\* The update a resuming request makes, chosen by the snapshot it read.
ResumeUpdate(snapshot_at_review, checkpoint, message) ==
  IF snapshot_at_review
  THEN UpdateState(checkpoint, ReviewPatch(message), "")
  ELSE UpdateState(checkpoint, MessagePatch(message), "initializer")

\* The status of the response, from the state after the run.
ResponseStatus(checkpoint) ==
  IF AtReview(checkpoint) THEN "reviewing"
  ELSE IF ~checkpoint.values.slots_complete THEN "clarifying"
  ELSE IF checkpoint.values.trip_id # 0 THEN "complete"
  ELSE "planning"

(***************************************************************************)
(* The planning loop (planner_node) and the tool dispatcher                *)
(* (_execute_tools).  A tool request is a tool name; what the lookup does   *)
(* when called is the request's outcome: "ok" (a result), "error" (the      *)
(* lookup returns an error dict) or "raises" (the call raises).             *)
(***************************************************************************)
TOOL_REGISTRY == {"search_flights", "search_hotels"}

ToolNames == TOOL_REGISTRY \cup {"get_weather"}

\* all_tool_results.get(name): nothing, one result, or a list of results.
NoResult == [tag |-> "none", one |-> [kind |-> "", call |-> 0], list |-> <<>>]
One(r) == [tag |-> "one", one |-> r, list |-> <<>>]
Many(rs) == [tag |-> "list", one |-> [kind |-> "", call |-> 0], list |-> rs]

NoResults == [n \in ToolNames |-> NoResult]

\* The result of the request with rank `call` of the pass.
ToolResult(name, outcome, call) ==
  IF name \notin TOOL_REGISTRY THEN [kind |-> "unknown_tool", call |-> call]
  ELSE IF outcome = "raises" THEN [kind |-> "raised", call |-> call]
  ELSE IF outcome = "error" THEN [kind |-> "error", call |-> call]
  ELSE [kind |-> "data", call |-> call]

\* _execute_tools from request i on: results is the dict built so far, invoked
\* the ranks of the requests whose lookup was called.
RECURSIVE ExecuteFrom(_, _, _, _, _, _)
ExecuteFrom(i, tool_requests, outcomes, first_call, results, invoked) ==
  IF i > Len(tool_requests) THEN [results |-> results, invoked |-> invoked, raised |-> FALSE]
  ELSE ExecuteFrom(i + 1, tool_requests, outcomes, first_call,
         [results EXCEPT ![tool_requests[i]] =
            One(ToolResult(tool_requests[i], outcomes[i], first_call + i))],
         IF tool_requests[i] \in TOOL_REGISTRY THEN Append(invoked, i) ELSE invoked)

RECURSIVE ExecuteFromAborting(_, _, _, _, _, _)
ExecuteFromAborting(i, tool_requests, outcomes, first_call, results, invoked) ==
  IF i > Len(tool_requests) THEN [results |-> results, invoked |-> invoked, raised |-> FALSE]
  ELSE IF tool_requests[i] \in TOOL_REGISTRY /\ outcomes[i] = "raises"
  THEN [results |-> results, invoked |-> Append(invoked, i), raised |-> TRUE]
  ELSE ExecuteFromAborting(i + 1, tool_requests, outcomes, first_call,
         [results EXCEPT ![tool_requests[i]] =
            One(ToolResult(tool_requests[i], outcomes[i], first_call + i))],
         IF tool_requests[i] \in TOOL_REGISTRY THEN Append(invoked, i) ELSE invoked)

ExecuteToolsAborting(tool_requests, outcomes, first_call) ==
  ExecuteFromAborting(1, tool_requests, outcomes, first_call, NoResults, <<>>)

ExecuteTools(tool_requests, outcomes, first_call) ==
  ExecuteFrom(1, tool_requests, outcomes, first_call, NoResults, <<>>)

\* The merge of one round's result for a tool name into the accumulated one.
MergeResult(accumulated, new) ==
  IF new.tag = "none" THEN accumulated
  ELSE IF accumulated.tag = "list" THEN Many(Append(accumulated.list, new.one))
  ELSE IF accumulated.tag = "one" THEN Many(<<accumulated.one, new.one>>)
  ELSE new

MergeResults(all_tool_results, round_results) ==
  [n \in ToolNames |-> MergeResult(all_tool_results[n], round_results[n])]

NoStrategy == [summary |-> "", fallback |-> FALSE, none |-> TRUE]
StrategyOf(planner_response) ==
  [summary |-> planner_response.summary, fallback |-> FALSE, none |-> FALSE]
FallbackStrategy == [summary |-> "Trip to destination", fallback |-> TRUE, none |-> FALSE]

\* The locals of planner_node before its loop.
PlannerIdle ==
  [pc |-> "idle", round_num |-> 0, llm_calls |-> 0, all_tool_calls |-> <<>>,
   all_tool_results |-> NoResults, final_strategy |-> NoStrategy,
   results_log |-> <<>>, last_parsed |-> NoStrategy,
   batch |-> [tool_requests |-> <<>>, outcomes |-> <<>>, first_call |-> 0,
              results |-> NoResults, invoked |-> <<>>, raised |-> FALSE]]

PlannerBegin == [PlannerIdle EXCEPT !.pc = "loop", !.round_num = 1]

\* for round_num in range(1, MAX_TOOL_ROUNDS + 1): the next iteration, or the
\* end of the loop.
ContinueUnbounded(p) == [p EXCEPT !.round_num = @ + 1]

Continue(p) ==
  IF p.round_num >= MAX_TOOL_ROUNDS THEN [p EXCEPT !.pc = "done"]
  ELSE [p EXCEPT !.round_num = @ + 1]

Break(p) == [p EXCEPT !.pc = "done"]

\* The tool branch of a round: log, execute, merge, keep the draft strategy.
ToolRound(p, planner_response, executed) ==
  Continue([p EXCEPT
     !.all_tool_calls = @ \o planner_response.tool_requests,
     !.all_tool_results = MergeResults(@, executed.results),
     !.final_strategy = StrategyOf(planner_response),
     !.results_log = @ \o [i \in 1..Len(planner_response.tool_requests) |->
                             [tool_name |-> planner_response.tool_requests[i],
                              result |-> ToolResult(planner_response.tool_requests[i],
                                                    planner_response.outcomes[i],
                                                    Len(p.all_tool_calls) + i)]],
     !.batch = [tool_requests |-> planner_response.tool_requests,
                outcomes |-> planner_response.outcomes,
                first_call |-> Len(p.all_tool_calls),
                results |-> executed.results, invoked |-> executed.invoked,
                raised |-> executed.raised]])

\* One iteration of the loop on the answer of the text-generation service.
Round(p, planner_response) ==
  IF ~planner_response.parsed
  THEN IF p.round_num < MAX_TOOL_ROUNDS THEN Continue(p) ELSE Break(p)
  ELSE IF planner_response.stop
  THEN Break([p EXCEPT !.final_strategy = StrategyOf(planner_response)])
  ELSE IF planner_response.tool_requests = <<>> THEN Continue(p)
  ELSE ToolRound(p, planner_response,
                 ExecuteTools(planner_response.tool_requests, planner_response.outcomes,
                              Len(p.all_tool_calls)))

CalledLlm(p) == [p EXCEPT !.llm_calls = @ + 1]

\* History: the draft of the latest answer that _parse_llm_response accepted.
Heard(p, planner_response) ==
  [p EXCEPT !.last_parsed = IF planner_response.parsed THEN StrategyOf(planner_response)
                            ELSE @]

\* What planner_node returns after the loop.
PlanOf(p) ==
  [tool_calls |-> p.all_tool_calls, tool_results |-> p.all_tool_results,
   strategy |-> IF p.final_strategy.none THEN FallbackStrategy ELSE p.final_strategy]

(***************************************************************************)
(* The flight and hotel lookups and their cache.                           *)
(***************************************************************************)
FLIGHT_CACHE_TTL == 900
HOTEL_CACHE_TTL == 1800

\* Seconds that pass in one step of the clock, and the last instant modelled.
TickSeconds == 450
MaxClock == 2250
MaxLookups == 2

LookupParams == {"P", "Q"}

TtlOf(tool) == IF tool = "search_flights" THEN FLIGHT_CACHE_TTL ELSE HOTEL_CACHE_TTL

\* _build_cache_key: a prefix per lookup and a digest of all the parameters
\* (a digest of 64 bits: distinct parameters of the model get distinct keys).
Prefix(tool) == IF tool = "search_flights" THEN "cache:flights" ELSE "cache:hotels"

BuildCacheKey(tool, params) == <<Prefix(tool), params>>

CacheKeys == {BuildCacheKey(tool, params) : tool \in TOOL_REGISTRY, params \in LookupParams}

NoData == [kind |-> "none", serial |-> 0, cached |-> FALSE]
NoEntry == [present |-> FALSE, value |-> NoData, expires |-> 0]
EmptyStore == [k \in CacheKeys |-> NoEntry]

\* redis.get(cache_key): the value of an entry that has not expired.
RedisGet(store, key, now) ==
  IF store[key].present /\ now < store[key].expires THEN store[key].value ELSE NoData

\* redis.set(cache_key, value, ex=ttl)
RedisSet(store, key, value, ttl, now) ==
  [store EXCEPT ![key] = [present |-> TRUE, value |-> value, expires |-> now + ttl]]

\* The store drops the entries whose time to live has elapsed.
Expire(store, now) ==
  [k \in DOMAIN store |->
     IF store[k].present /\ store[k].expires <= now THEN NoEntry ELSE store[k]]

\* The cache check of a lookup. Without a client it is skipped. On the thread
\* of a running event loop the read is handed to that loop and awaited with a
\* blocking future.result(timeout=2): the loop cannot run it meanwhile, the
\* wait times out and the exception is swallowed. Without a running loop the
\* read runs to completion, and a hit is returned with _cached added.
CacheGet(client, running_loop, store, key, now) ==
  IF ~client THEN [outcome |-> "skipped", value |-> NoData]
  ELSE IF running_loop THEN [outcome |-> "timeout", value |-> NoData]
  ELSE IF RedisGet(store, key, now).kind = "none"
       THEN [outcome |-> "miss", value |-> NoData]
       ELSE [outcome |-> "hit", value |-> [RedisGet(store, key, now) EXCEPT !.cached = TRUE]]

\* What the call of the provider yields: offers, no offers, or an error
\* dictionary (ResponseError or any other exception).
ProviderOutcomes == {"ok", "empty", "error"}

ProviderResult(outcome, serial) ==
  [kind |-> IF outcome = "ok" THEN "data" ELSE outcome, serial |-> serial, cached |-> FALSE]

\* Lookups that store whatever they return.
StoredWhatever(tool, outcome) == TRUE

\* Results that reach the store-in-cache step: search_hotels returns early
\* when the city has no hotels, and the error returns skip it.
Stored(tool, outcome) ==
  \/ outcome = "ok"
  \/ outcome = "empty" /\ tool = "search_flights"

ReadCoroutine(key) == [op |-> "get", key |-> key, value |-> NoData, ttl |-> 0]

WriteCoroutine(tool, key, value) == [op |-> "set", key |-> key, value |-> value, ttl |-> TtlOf(tool)]

\* The coroutines a lookup leaves on the event loop: the read it stopped
\* waiting for, and the write it never waits for.
ScheduledBy(tool, key, got, client, running_loop, outcome, value) ==
  (IF got.outcome = "timeout" THEN <<ReadCoroutine(key)>> ELSE <<>>)
    \o (IF client /\ running_loop /\ Stored(tool, outcome)
        THEN <<WriteCoroutine(tool, key, value)>> ELSE <<>>)

NoLookup ==
  [tool |-> "", params |-> "", client |-> FALSE, read |-> "", live |-> FALSE,
   entry |-> NoData, provider_called |-> FALSE, outcome |-> "", result |-> NoData,
   failed_writes |-> 0]

LookupRecord(tool, params, client, got, c, provider_called, outcome, result) ==
  [tool |-> tool, params |-> params, client |-> client, read |-> got.outcome,
   live |-> RedisGet(c.store, BuildCacheKey(tool, params), c.now).kind # "none",
   entry |-> RedisGet(c.store, BuildCacheKey(tool, params), c.now),
   provider_called |-> provider_called, outcome |-> outcome, result |-> result,
   failed_writes |-> c.failed_writes]

\* A lookup whose cache check lets its exception out.
SearchAfterPropagating(tool, params, got, client, running_loop, outcome, c) ==
  IF got.outcome = "timeout"
  THEN [c EXCEPT !.lookups = @ + 1,
                 !.scheduled = @ \o <<ReadCoroutine(BuildCacheKey(tool, params))>>,
                 !.lookup = LookupRecord(tool, params, client, got, c, FALSE, "",
                                         [kind |-> "raised", serial |-> 0, cached |-> FALSE])]
  ELSE [c EXCEPT !.lookups = @ + 1,
                 !.provider_calls = @ + 1,
                 !.lookup = LookupRecord(tool, params, client, got, c, TRUE, outcome,
                                         ProviderResult(outcome, c.provider_calls + 1))]

\* search_flights / search_hotels after the cache check.
SearchAfter(tool, params, got, client, running_loop, outcome, c) ==
  IF got.outcome = "hit"
  THEN [c EXCEPT !.lookups = @ + 1,
                 !.lookup = LookupRecord(tool, params, client, got, c, FALSE, "", got.value)]
  ELSE [c EXCEPT !.lookups = @ + 1,
                 !.provider_calls = @ + 1,
                 !.scheduled = @ \o ScheduledBy(tool, BuildCacheKey(tool, params), got, client,
                                                running_loop, outcome,
                                                ProviderResult(outcome, c.provider_calls + 1)),
                 !.store = IF client /\ ~running_loop /\ Stored(tool, outcome)
                           THEN RedisSet(@, BuildCacheKey(tool, params),
                                         ProviderResult(outcome, c.provider_calls + 1),
                                         TtlOf(tool), c.now)
                           ELSE @,
                 !.lookup = LookupRecord(tool, params, client, got, c, TRUE, outcome,
                                         ProviderResult(outcome, c.provider_calls + 1))]

Search(tool, params, client, running_loop, outcome, c) ==
  SearchAfter(tool, params,
              CacheGet(client, running_loop, c.store, BuildCacheKey(tool, params), c.now),
              client, running_loop, outcome, c)

\* The event loop runs a coroutine it was handed. Nobody reads the result of
\* either kind: a failure stays in its future.
RunScheduled(coroutine, redis_up, c) ==
  [c EXCEPT !.scheduled = Tail(@),
            !.store = IF redis_up /\ coroutine.op = "set"
                      THEN RedisSet(@, coroutine.key, coroutine.value, coroutine.ttl, c.now)
                      ELSE @,
            !.failed_writes = IF ~redis_up /\ coroutine.op = "set" THEN @ + 1 ELSE @]

(***************************************************************************)
(* The cache keys.  A JSON text is the sequence of its tokens; None is the  *)
(* absent value of a parameter.                                             *)
(***************************************************************************)
None == "None"

\* The parameter names of the model, in the order sorted() gives them.
ParamNames == <<"c", "ci", "co", "d", "dd", "fn", "g", "o", "r", "rd", "ru", "t">>

HexChars == <<"0", "1", "2", "3", "4", "5", "6", "7", "8", "9",
              "a", "b", "c", "d", "e", "f">>

\* The tokens of the texts that are hashed.
JsonTokens ==
  <<"{", "}", ":", ",", "null", "X", "Y", "search_flights", "search_hotels">>
    \o ParamNames

TokenCode(token) == CHOOSE i \in 1..Len(JsonTokens) : JsonTokens[i] = token

Named(kwargs, name) == \E i \in 1..Len(kwargs) : kwargs[i][1] = name

ValueOf(kwargs, name) ==
  kwargs[CHOOSE i \in 1..Len(kwargs) : kwargs[i][1] = name][2]

ItemsOf(kwargs, names) ==
  [i \in 1..Len(names) |-> <<names[i], ValueOf(kwargs, names[i])>>]

\* sorted(kwargs.items()), also the order json.dumps(sort_keys=True) writes.
SortedItems(kwargs) ==
  ItemsOf(kwargs, SelectSeq(ParamNames, LAMBDA name : Named(kwargs, name)))

\* A key builder that hashes the None parameters with the others.
NotNoneKept(items) == items

\* {k: v for k, v in ... if v is not None}
NotNone(items) == SelectSeq(items, LAMBDA item : item[2] # None)

RECURSIVE JsonMembers(_)
JsonMembers(items) ==
  IF items = <<>> THEN <<>>
  ELSE <<items[1][1], ":", IF items[1][2] = None THEN "null" ELSE items[1][2]>>
         \o (IF Len(items) > 1 THEN <<",">> ELSE <<>>)
         \o JsonMembers(Tail(items))

\* json.dumps(d, sort_keys=True)
JsonDumps(items) == <<"{">> \o JsonMembers(items) \o <<"}">>

\* hashlib.sha256(raw.encode()).hexdigest(): 64 hexadecimal characters.  The
\* digest of the model is a 24-bit rolling digest of the tokens, written out
\* again and again with a shift.
RECURSIVE Rolling(_, _)
Rolling(h, tokens) ==
  IF tokens = <<>> THEN h
  ELSE Rolling((h * 33 + TokenCode(Head(tokens))) % 16777216, Tail(tokens))

Power16(n) == IF n = 0 THEN 1 ELSE IF n = 1 THEN 16 ELSE IF n = 2 THEN 256
              ELSE IF n = 3 THEN 4096 ELSE IF n = 4 THEN 65536
              ELSE 1048576

HexOf(h) ==
  [i \in 1..64 |->
     HexChars[(((h \div Power16((i - 1) % 6)) + ((i - 1) \div 6) * 7) % 16) + 1]]

HexDigest(raw) == HexOf(Rolling(5381, raw))

\* f"cache:{prefix}:{key_hash}", the three parts.
KeyText(prefix, raw) == <<"cache", prefix, SubSeq(HexDigest(raw), 1, 16)>>

\* cache.py: _build_cache_key(prefix, **kwargs)
BuildKwargsKey(prefix, kwargs) ==
  KeyText(prefix, JsonDumps(NotNone(SortedItems(kwargs))))

FlightsKwargs(origin, destination, departure_date, return_date, travelers) ==
  <<<<"fn", "search_flights">>, <<"o", origin>>, <<"d", destination>>,
    <<"dd", departure_date>>, <<"rd", return_date>>, <<"t", travelers>>>>

\* flights.py: _build_cache_key(origin, destination, departure_date, return_date, travelers)
BuildFlightsKey(origin, destination, departure_date, return_date, travelers) ==
  KeyText("flights",
          JsonDumps(SortedItems(FlightsKwargs(origin, destination, departure_date,
                                              return_date, travelers))))

HotelsKwargs(city_code, checkin, checkout, guests, radius, radius_unit) ==
  <<<<"fn", "search_hotels">>, <<"c", city_code>>, <<"ci", checkin>>,
    <<"co", checkout>>, <<"g", guests>>, <<"r", radius>>, <<"ru", radius_unit>>>>

\* hotels.py: _build_cache_key(city_code, checkin, checkout, guests, radius, radius_unit)
BuildHotelsKey(city_code, checkin, checkout, guests, radius, radius_unit) ==
  KeyText("hotels",
          JsonDumps(SortedItems(HotelsKwargs(city_code, checkin, checkout, guests,
                                             radius, radius_unit))))

\* History: the last two keys built, with what they were built from.
Built(builder, prefix, kwargs, key) ==
  [builder |-> builder, prefix |-> prefix, kwargs |-> kwargs, key |-> key]

LastTwo(keys, built) ==
  IF keys = <<>> THEN <<built>> ELSE <<keys[Len(keys)], built>>

CacheIdle ==
  [store |-> EmptyStore, scheduled |-> <<>>, now |-> 0, provider_calls |-> 0,
   lookups |-> 0, failed_writes |-> 0, lookup |-> NoLookup, keys |-> <<>>]

(***************************************************************************)
(* State.                                                                  *)
(*   checkpoints[w][t]  latest checkpoint of thread t in worker w's saver   *)
(*   db                 the trips, itinerary_versions, conversations        *)
(*   issued             the thread identifiers generated so far             *)
(*   nreq               chat requests received so far                       *)
(*   inflight[r]        a resuming request between its awaits               *)
(*   latest[t]          the checkpoint the latest request of t ended with   *)
(*   last               record of the request that completed last           *)
(*   planner            the locals of a planning pass in progress           *)
(*   cache              the cache store, the event loop's queue, the clock  *)
(* latest and last are history variables: no action reads them.            *)
(***************************************************************************)
VARIABLES checkpoints, db, issued, nreq, inflight, latest, last, planner, cache

vars == <<checkpoints, db, issued, nreq, inflight, latest, last, planner, cache>>

sessionvars == <<checkpoints, db, issued, nreq, inflight, latest, last>>

Workers == {"w1", "w2"}
Threads == {1, 2}
Slots == {1, 2}

Idle == [pc |-> "idle", worker |-> "", thread |-> 0, message |-> <<>>,
         read |-> NoCheckpoint, updated |-> NoCheckpoint, node |-> END,
         local |-> NoCheckpoint, trace |-> <<>>, resumed |-> FALSE,
         lost_race |-> FALSE, db_before |-> EmptyDb, failed |-> FALSE]

NoRequest ==
  [n |-> 0, kind |-> "none", worker |-> "", thread |-> 0, message |-> <<>>,
   read |-> NoCheckpoint, pre |-> NoCheckpoint, latest_before |-> NoCheckpoint,
   updated |-> NoCheckpoint, trace |-> <<>>, called_llm |-> FALSE,
   slot |-> ParseFailureResponse, status |-> "", error |-> "", fail |-> 0,
   synthesis_failed |-> FALSE,
   lost_race |-> FALSE, post |-> NoCheckpoint, db_before |-> EmptyDb,
   repeated |-> FALSE, ever |-> [t \in Threads |-> {}]]

Init ==
  /\ checkpoints = [w \in Workers |-> [t \in Threads |-> NoCheckpoint]]
  /\ db = EmptyDb
  /\ issued = {}
  /\ nreq = 0
  /\ inflight = [r \in Slots |-> Idle]
  /\ latest = [t \in Threads |-> NoCheckpoint]
  /\ last = NoRequest
  /\ planner = PlannerIdle
  /\ cache = CacheIdle

\* The run called the extraction service: intent_slot ran on a non-empty message.
CalledExtraction(run) ==
  /\ \E i \in 1..Len(run.trace) : run.trace[i] = "intent_slot"
  /\ LatestUserMessage(run.values.messages) # <<>>

\* History: the derived fields the extractions of a session have supplied.
DerivedFields == {"travel_group", "traveler_count", "end_date"}

SuppliedBy(run, env) ==
  IF CalledExtraction(run)
  THEN {f \in DerivedFields : Has(SlotResponse(env.slot).slots, f)}
  ELSE {}

\* The record of a completed request.  read: the snapshot its branch was chosen
\* by; pre: the checkpoint its update was applied to; repeated: the request
\* applied the extraction result that the previous request, of the same
\* session, had applied.
Completed(kind, w, t, message, read, pre, updated, run, env) ==
  [n |-> nreq + 1, kind |-> kind, worker |-> w, thread |-> t, message |-> message,
   read |-> read, pre |-> pre, latest_before |-> latest[t], updated |-> updated,
   trace |-> run.trace, called_llm |-> CalledExtraction(run),
   slot |-> IF CalledExtraction(run) THEN env.slot ELSE ParseFailureResponse,
   status |-> IF run.failed THEN "" ELSE ResponseStatus(Checkpoint(run)),
   error |-> IF run.failed THEN "ServerError" ELSE "",
   fail |-> IF \E i \in 1..Len(run.trace) : run.trace[i] = "finalizer" THEN env.fail ELSE 0,
   synthesis_failed |-> /\ \E i \in 1..Len(run.trace) : run.trace[i] = "itinerary_gen"
                        /\ ~env.synthesis.parsed,
   lost_race |-> FALSE, post |-> Checkpoint(run), db_before |-> db,
   repeated |-> /\ kind = "resume" /\ last.thread = t /\ last.called_llm
                /\ CalledExtraction(run) /\ last.slot = env.slot,
   ever |-> [last.ever EXCEPT
               ![t] = (IF kind = "new" THEN {} ELSE @) \cup SuppliedBy(run, env)]]

\* The handler's end: the run's last checkpoint is the thread's state.
Respond(kind, w, t, message, snapshot, updated, run, env) ==
  /\ checkpoints' = [checkpoints EXCEPT ![w][t] = Checkpoint(run)]
  /\ latest' = [latest EXCEPT ![t] = Checkpoint(run)]
  /\ db' = run.db
  /\ last' = Completed(kind, w, t, message, snapshot, snapshot, updated, run, env)

ResumeWith(w, t, message, snapshot, updated, env) ==
  Respond("resume", w, t, message, snapshot, updated, Resume(updated, db, env), env)

ResumeFrom(w, t, message, snapshot, env) ==
  ResumeWith(w, t, message, snapshot,
             ResumeUpdate(AtReview(snapshot), snapshot, message), env)

NoneInFlight == \A r \in Slots : inflight[r].pc = "idle"

\* New session: thread_id absent, a fresh identifier t is generated (uuid4: one
\* that no request has named so far) and the graph is invoked on the initial state.
StartSession(w, t, user_id, message, env) ==
  /\ NoneInFlight
  /\ nreq < MaxRequests
  /\ t \notin issued
  /\ \A w2 \in Workers : ~checkpoints[w2][t].exists
  /\ Respond("new", w, t, message, NoCheckpoint, NoCheckpoint,
             RunGraph("initializer", InitialState(user_id, message), db, "",
                      <<>>, env, FALSE),
             env)
  /\ issued' = issued \cup {t}
  /\ nreq' = nreq + 1
  /\ UNCHANGED <<inflight, planner, cache>>

\* Resume: thread_id given.  The whole handler, with no other request of the
\* thread between its awaits.
ResumeSession(w, t, message, env) ==
  /\ NoneInFlight
  /\ nreq < MaxRequests
  /\ ResumeFrom(w, t, message, GetState(checkpoints[w], t), env)
  /\ nreq' = nreq + 1
  /\ UNCHANGED <<issued, inflight, planner, cache>>

(***************************************************************************)
(* The same handler between its awaits, for requests of one thread that     *)
(* overlap.  aget_state and aupdate_state on the in-memory saver and the    *)
(* loading of the checkpoint by ainvoke do not suspend; every superstep of  *)
(* the run does, and saves the run's own state as the latest checkpoint.    *)
(***************************************************************************)
\* The request is over: its response is computed from the stored state.
FinishRecord(q, rec) ==
  [rec EXCEPT !.lost_race = q.lost_race, !.db_before = q.db_before]

Finish(r, q, stored, dbAfter, env) ==
  /\ last' = FinishRecord(q,
               Completed("resume", q.worker, q.thread, q.message, q.read, q.read,
                         q.updated,
                         [values |-> stored.values, next |-> stored.next,
                          writer |-> stored.writer, db |-> dbAfter, trace |-> q.trace,
                          failed |-> q.failed],
                         env))
  /\ latest' = [latest EXCEPT ![q.thread] = stored]
  /\ inflight' = [x \in Slots |->
                    IF x = r THEN Idle
                    ELSE IF inflight[x].pc = "running"
                            /\ inflight[x].worker = q.worker
                            /\ inflight[x].thread = q.thread
                         THEN [inflight[x] EXCEPT !.lost_race = TRUE]
                         ELSE inflight[x]]

Arrived(w, t, message, snapshot, updated) ==
  [pc |-> "running", worker |-> w, thread |-> t, message |-> message,
   read |-> snapshot, updated |-> updated,
   node |-> IF updated.next = {} THEN END ELSE CHOOSE n \in updated.next : TRUE,
   local |-> updated, trace |-> <<>>, resumed |-> TRUE,
   lost_race |-> FALSE, db_before |-> db, failed |-> FALSE]

Begin(r, w, t, q, env) ==
  /\ checkpoints' = [checkpoints EXCEPT ![w][t] = q.updated]
  /\ IF q.node = END
     THEN Finish(r, q, q.updated, db, env)
     ELSE /\ inflight' = [inflight EXCEPT ![r] = q]
          /\ UNCHANGED <<latest, last>>

BeginFrom(r, w, t, message, snapshot, env) ==
  Begin(r, w, t,
        Arrived(w, t, message, snapshot,
                ResumeUpdate(AtReview(snapshot), snapshot, message)),
        env)

\* The request arrives: snapshot, update, and the run loads the checkpoint.
BeginResume(r, w, t, message, env) ==
  /\ inflight[r].pc = "idle"
  /\ nreq < MaxRequests
  /\ nreq' = nreq + 1
  /\ BeginFrom(r, w, t, message, GetState(checkpoints[w], t), env)
  /\ UNCHANGED <<db, issued, planner, cache>>

Saved(node, values2) ==
  [exists |-> TRUE, values |-> values2, next |-> NextOf(RouteAfter(node, values2)),
   writer |-> node]

Stepped(q, saved) ==
  [q EXCEPT !.node = IF saved.next = {} THEN END ELSE CHOOSE n \in saved.next : TRUE,
            !.local = saved, !.trace = Append(@, q.node), !.resumed = FALSE]

StepTo(r, q, saved, db2, env) ==
  /\ checkpoints' = [checkpoints EXCEPT ![q.worker][q.thread] = saved]
  /\ db' = db2
  /\ IF saved.next = {} \/ saved.next \subseteq InterruptBefore
     THEN Finish(r, Stepped(q, saved), saved, db2, env)
     ELSE /\ inflight' = [inflight EXCEPT ![r] = Stepped(q, saved)]
          /\ UNCHANGED <<latest, last>>

\* The finalizer of a run in flight raises: nothing is saved, the request ends.
StepFails(r, q, db2, env) ==
  /\ db' = db2
  /\ UNCHANGED checkpoints
  /\ Finish(r, [q EXCEPT !.trace = Append(@, q.node), !.failed = TRUE],
            checkpoints[q.worker][q.thread], db2, env)

\* One superstep of a run in flight: the node runs on the run's own state and
\* the result is saved; the run ends at END or at the interrupt before review.
StepNode(r, env) ==
  /\ inflight[r].pc = "running"
  /\ IF inflight[r].node = "finalizer" /\ env.fail # 0
     THEN StepFails(r, inflight[r],
                    PartialInserts(inflight[r].local.values, db, env.fail), env)
     ELSE StepTo(r, inflight[r],
                 Saved(inflight[r].node,
                       ExecNode(inflight[r].node, inflight[r].local.values, db, env)),
                 IF inflight[r].node = "finalizer"
                 THEN FinalizerDb(inflight[r].local.values, db) ELSE db,
                 env)
  /\ UNCHANGED <<issued, nreq, planner, cache>>

(***************************************************************************)
(* A planning pass, round by round.                                        *)
(***************************************************************************)
\* planner_node is entered.
PlannerStart ==
  /\ planner.pc \in {"idle", "done"}
  /\ planner' = PlannerBegin
  /\ UNCHANGED <<sessionvars, cache>>

\* One round: the call to the text-generation service and what follows it.
PlannerRound(planner_response) ==
  /\ planner.pc = "loop"
  /\ Len(planner.all_tool_calls) + Len(planner_response.tool_requests) <= MaxToolCalls
  /\ planner' = Round(Heard(CalledLlm(planner), planner_response), planner_response)
  /\ UNCHANGED <<sessionvars, cache>>

(***************************************************************************)
(* Lookups made by the dispatcher of a planning pass, and their cache.     *)
(***************************************************************************)
\* A call of search_flights or search_hotels from _execute_tools, which
\* planner_node calls without awaiting: on the thread of the event loop.
Lookup(tool, params, client, outcome) ==
  /\ cache.lookups < MaxLookups
  /\ cache' = Search(tool, params, client, TRUE, outcome, cache)
  /\ UNCHANGED <<sessionvars, planner>>

\* The planner awaits; the event loop runs the oldest coroutine handed to it.
LoopRuns(redis_up) ==
  /\ cache.scheduled # <<>>
  /\ cache' = RunScheduled(Head(cache.scheduled), redis_up, cache)
  /\ UNCHANGED <<sessionvars, planner>>

\* Time passes.
Tick ==
  /\ cache.now + TickSeconds <= MaxClock
  /\ cache' = [cache EXCEPT !.now = @ + TickSeconds,
                            !.store = Expire(@, cache.now + TickSeconds)]
  /\ UNCHANGED <<sessionvars, planner>>

\* A key is built by the builder of cache.py, of flights.py or of hotels.py.
KwargsKeyBuilt(prefix, kwargs) ==
  /\ cache' = [cache EXCEPT !.keys =
                 LastTwo(@, Built("cache", prefix, kwargs, BuildKwargsKey(prefix, kwargs)))]
  /\ UNCHANGED <<sessionvars, planner>>

FlightsKeyBuilt(origin, destination, departure_date, return_date, travelers) ==
  /\ cache' = [cache EXCEPT !.keys =
                 LastTwo(@, Built("flights", "flights",
                                  FlightsKwargs(origin, destination, departure_date,
                                                return_date, travelers),
                                  BuildFlightsKey(origin, destination, departure_date,
                                                  return_date, travelers)))]
  /\ UNCHANGED <<sessionvars, planner>>

HotelsKeyBuilt(city_code, checkin, checkout, guests, radius, radius_unit) ==
  /\ cache' = [cache EXCEPT !.keys =
                 LastTwo(@, Built("hotels", "hotels",
                                  HotelsKwargs(city_code, checkin, checkout, guests,
                                               radius, radius_unit),
                                  BuildHotelsKey(city_code, checkin, checkout, guests,
                                                 radius, radius_unit)))]
  /\ UNCHANGED <<sessionvars, planner>>

(***************************************************************************)
(* Inputs.                                                                 *)
(***************************************************************************)
RespNothing ==
  [parsed |-> TRUE, slots |-> EmptySlots, follow_up_question |-> "ASK", is_complete |-> FALSE]

RespUnparsed ==
  [parsed |-> FALSE, slots |-> EmptySlots, follow_up_question |-> "", is_complete |-> FALSE]

RespFull ==
  [parsed |-> TRUE,
   slots |-> [EmptySlots EXCEPT !["destination"] = "Paris", !["origin"] = "New York",
                                 !["duration_days"] = 5, !["start_date"] = 200,
                                 !["budget_max"] = 3000],
   follow_up_question |-> "", is_complete |-> TRUE]

PlanA == [tool_calls |-> <<>>, tool_results |-> <<>>,
          strategy |-> [summary |-> "A", fallback |-> FALSE]]

SynthParsed(title, days) == [parsed |-> TRUE, title |-> <<title>>, total |-> 2500, days |-> days]
SynthUnparsed == [parsed |-> FALSE, title |-> <<>>, total |-> 0, days |-> 0]

GoMsg == <<"g", "o">>
OkMsg == <<" ", "O", "k">>

\* fail: the insert of the finalizer that raises during the run (0: none).
EnvsFailing(slotResponses, plans, syntheses, failures) ==
  [slot : slotResponses, plan : plans, synthesis : syntheses, fail : failures]

Envs(slotResponses, plans, syntheses) ==
  EnvsFailing(slotResponses, plans, syntheses, {0})

SeqNext(workers, threads, users, messages, envs) ==
  \/ \E w \in workers, t \in threads, u \in users, m \in messages, env \in envs :
       StartSession(w, t, u, m, env)
  \/ \E w \in workers, t \in threads, m \in messages, env \in envs :
       ResumeSession(w, t, m, env)

\* The session workflow in one worker, requests one after the other.
RespDestination ==
  [parsed |-> TRUE, slots |-> [EmptySlots EXCEPT !["destination"] = "Rome"],
   follow_up_question |-> "ASK", is_complete |-> FALSE]

EmptyMsg == <<>>

WorkflowEnvs ==
  Envs({RespNothing, RespDestination, RespFull}, {PlanA},
       {SynthParsed("T1", 5), SynthParsed("T2", 5)})

WorkflowMessages == {EmptyMsg, GoMsg, OkMsg}

Next == SeqNext({"w1"}, {1}, {"u1", "u2"}, WorkflowMessages, WorkflowEnvs)

Spec == Init /\ [][Next]_vars

\* Extraction turns: answers that supply nothing, one field, another value of
\* that field, or that do not parse.
RespOslo ==
  [parsed |-> TRUE,
   slots |-> [EmptySlots EXCEPT !["destination"] = "Oslo", !["start_date"] = BadDate],
   follow_up_question |-> "", is_complete |-> FALSE]

SlotsEnvs ==
  Envs({RespNothing, RespUnparsed, RespDestination, RespOslo}, {PlanA},
       {SynthParsed("T1", 5)})

NextSlots == SeqNext({"w1"}, {1}, {"u1", "u2", "u3"}, {EmptyMsg, GoMsg}, SlotsEnvs)

SpecSlots == Init /\ [][NextSlots]_vars

\* The answers of the text-generation service in a planning round.
Unparsed == [parsed |-> FALSE, stop |-> FALSE, tool_requests |-> <<>>, outcomes |-> <<>>,
             summary |-> ""]
Stop == [parsed |-> TRUE, stop |-> TRUE, tool_requests |-> <<>>, outcomes |-> <<>>,
         summary |-> "FINAL"]
NoTools == [parsed |-> TRUE, stop |-> FALSE, tool_requests |-> <<>>, outcomes |-> <<>>,
            summary |-> "IDLE"]

Outcomes == {"ok", "error", "raises"}

ToolRounds ==
  {[parsed |-> TRUE, stop |-> FALSE, tool_requests |-> reqs, outcomes |-> outs,
    summary |-> "DRAFT"] :
     reqs \in {<<a>> : a \in ToolNames} \cup {<<a, b>> : a, b \in ToolNames},
     outs \in {<<a>> : a \in Outcomes} \cup {<<a, b>> : a, b \in Outcomes}}

PlannerResponses ==
  {Unparsed, Stop, NoTools}
    \cup {r \in ToolRounds :
            /\ Len(r.tool_requests) = Len(r.outcomes)
            /\ \A i \in 1..Len(r.tool_requests) :
                  r.tool_requests[i] \notin TOOL_REGISTRY => r.outcomes[i] = "ok"}

NextPlanner ==
  \/ PlannerStart
  \/ \E planner_response \in PlannerResponses : PlannerRound(planner_response)

SpecPlanner == Init /\ [][NextPlanner]_vars

\* Lookups from the planning loop, the event loop and the clock.
NextCache ==
  \/ \E tool \in TOOL_REGISTRY, params \in LookupParams, client \in BOOLEAN,
        outcome \in ProviderOutcomes : Lookup(tool, params, client, outcome)
  \/ \E redis_up \in BOOLEAN : LoopRuns(redis_up)
  \/ Tick

SpecCache == Init /\ [][NextCache]_vars

\* Keys built from keyword parameters in any order, some of them None, and
\* from the parameters of the two lookups.
KwargsInputs ==
  {<<>>}
    \cup {<<<<n, v>>>> : n \in {"c", "ci"}, v \in {None, "X", "Y"}}
    \cup {<<<<"c", v>>, <<"ci", w>>>> : v \in {None, "X", "Y"}, w \in {None, "X", "Y"}}
    \cup {<<<<"ci", w>>, <<"c", v>>>> : v \in {None, "X", "Y"}, w \in {None, "X", "Y"}}

NextKeys ==
  \/ \E prefix \in {"flights", "hotels"}, kwargs \in KwargsInputs :
       KwargsKeyBuilt(prefix, kwargs)
  \/ \E destination \in {"X", "Y"}, return_date \in {None, "X"}, travelers \in {"X", "Y"} :
       FlightsKeyBuilt("X", destination, "X", return_date, travelers)
  \/ \E city_code \in {"X", "Y"}, checkout \in {None, "Y"}, guests \in {"X", "Y"} :
       HotelsKeyBuilt(city_code, "X", checkout, guests, "X", "Y")

SpecKeys == Init /\ [][NextKeys]_vars

\* Two worker processes, each with its own checkpointer.
WorkersEnvs == Envs({RespNothing, RespFull}, {PlanA}, {SynthParsed("T1", 5)})

NextWorkers == SeqNext(Workers, {1}, {"u1"}, {GoMsg, OkMsg}, WorkersEnvs)

SpecWorkers == Init /\ [][NextWorkers]_vars

\* One worker, requests of a thread overlapping.
ConcEnvs == Envs({RespFull}, {PlanA}, {SynthParsed("T1", 5)})

NextConc ==
  \/ \E m \in {GoMsg}, env \in ConcEnvs : StartSession("w1", 1, "u1", m, env)
  \/ \E r \in Slots, m \in {GoMsg, OkMsg}, env \in ConcEnvs :
       BeginResume(r, "w1", 1, m, env)
  \/ \E r \in Slots, env \in ConcEnvs : StepNode(r, env)

SpecConc == Init /\ [][NextConc]_vars

\* Answers at the review pause: approvals with other case and surrounding
\* whitespace, a message that contains a token, feedback with surrounding
\* whitespace, an empty message.
OkGoMsg == <<"o", "k", " ", "g", "o">>
PaddedMsg == <<" ", "g", "o", "\n">>
YesMsg == <<"\t", "Y", "E", "S", "\n">>

ReviewMessages == {EmptyMsg, OkMsg, YesMsg, OkGoMsg, PaddedMsg}

ReviewEnvs == Envs({RespFull}, {PlanA}, {SynthParsed("T1", 5)})

NextReview == SeqNext({"w1"}, {1}, {"u1"}, ReviewMessages, ReviewEnvs)

SpecReview == Init /\ [][NextReview]_vars

\* Approvals whose finalizer may fail at any of its three inserts.
PersistEnvs ==
  EnvsFailing({RespFull}, {PlanA}, {SynthParsed("T1", 5)}, {0} \cup InsertFailures)

NextPersist == SeqNext({"w1"}, {1}, {"u1"}, {GoMsg, OkMsg}, PersistEnvs)

SpecPersist == Init /\ [][NextPersist]_vars

\* Complete first messages whose itinerary synthesis answers with the days of
\* the duration, with fewer days, or with text that does not parse.
ItineraryEnvs ==
  Envs({RespFull}, {PlanA}, {SynthParsed("T1", 5), SynthParsed("T1", 3), SynthUnparsed})

NextItinerary == SeqNext({"w1"}, {1}, {"u1", "u2"}, {GoMsg, OkMsg}, ItineraryEnvs)

SpecItinerary == Init /\ [][NextItinerary]_vars

\* Extraction turns for the completeness check and the derived fields: a
\* completeness flag that contradicts the fields, a travel group without a
\* count, a start date and a duration without a budget, a later start date.
RespFlagged ==
  [parsed |-> TRUE, slots |-> [EmptySlots EXCEPT !["destination"] = "Rome"],
   follow_up_question |-> "", is_complete |-> TRUE]

RespFullUnflagged == [RespFull EXCEPT !.is_complete = FALSE, !.follow_up_question = "ASK"]

RespCouple ==
  [parsed |-> TRUE, slots |-> [EmptySlots EXCEPT !["travel_group"] = "couple"],
   follow_up_question |-> "ASK", is_complete |-> FALSE]

RespStartDuration ==
  [parsed |-> TRUE,
   slots |-> [EmptySlots EXCEPT !["start_date"] = 200, !["duration_days"] = 5],
   follow_up_question |-> "ASK", is_complete |-> FALSE]

RespLater ==
  [parsed |-> TRUE, slots |-> [EmptySlots EXCEPT !["start_date"] = 210],
   follow_up_question |-> "ASK", is_complete |-> FALSE]

ExtractEnvs ==
  Envs({RespNothing, RespUnparsed, RespFlagged, RespFullUnflagged, RespCouple,
        RespStartDuration, RespLater},
       {PlanA}, {SynthParsed("T1", 5)})

NextExtract == SeqNext({"w1"}, {1}, {"u1", "u2"}, {GoMsg}, ExtractEnvs)

SpecExtract == Init /\ [][NextExtract]_vars

(***************************************************************************)
(* Properties of the session workflow.                                     *)
(***************************************************************************)
Ran(trace, node) == \E i \in 1..Len(trace) : trace[i] = node

\* The pause points, as the checkpoint a request ends with.
ReviewPending(c) == c.exists /\ c.next = {"review"} /\ c.writer = "itinerary_gen"
ClarificationNeeded(c) ==
  c.exists /\ c.next = {} /\ c.writer = "intent_slot" /\ ~c.values.slots_complete
SessionCompleted(c) == c.exists /\ c.next = {} /\ c.writer = "finalizer"

\* C1: the finalizer runs only in a request that found the session paused at
\* ReviewPending and whose message was an approval; it runs right after the
\* review stage, the records it inserts hold the draft of that pause, and no
\* request without a finalizer run changes the stored records.
C1_FinalizeOnlyAfterApproval ==
  /\ Ran(last.trace, "finalizer") =>
       /\ last.kind = "resume"
       /\ ReviewPending(last.pre)
       /\ IsApproval(last.message)
       /\ last.trace = <<"review", "finalizer">>
       /\ Len(db.trips) = Len(last.db_before.trips) + 1
       /\ db.itinerary_versions[Len(db.itinerary_versions)].itinerary
            = last.pre.values.itinerary
       /\ db.itinerary_versions[Len(db.itinerary_versions)].trip_id
            = db.trips[Len(db.trips)].id
  /\ ~Ran(last.trace, "finalizer") => db = last.db_before

\* Reached: a draft was revised at least once and the revised draft, approved,
\* was persisted.
C1_Witness ==
  /\ Ran(last.trace, "finalizer")
  /\ \E i \in 1..Len(last.pre.values.messages) :
       last.pre.values.messages[i] = AiMsg("REPLAN")
  /\ last.message = OkMsg

\* C2: a request on a session that is Completed runs no workflow stage and
\* leaves the session Completed.
C2_CompletedIsTerminal ==
  (last.kind = "resume" /\ SessionCompleted(last.pre)) =>
     /\ last.trace = <<>>
     /\ SessionCompleted(last.post)
     /\ db = last.db_before

\* C3: a request naming a thread without a checkpoint fails with
\* SessionNotFound, runs no stage and stores no state under the identifier.
C3_UnknownThreadFails ==
  (last.kind = "resume" /\ ~last.read.exists) =>
     /\ last.error = "SessionNotFound"
     /\ last.trace = <<>>
     /\ ~checkpoints[last.worker][last.thread].exists

\* C6: the stages of every request follow the documented transitions.
DocumentedStep(r, i) ==
  LET a == r.trace[i]
      b == IF i < Len(r.trace) THEN r.trace[i + 1] ELSE IF r.post.next = {} THEN END
           ELSE "pause:" \o (CHOOSE n \in r.post.next : TRUE)
  IN CASE a = "initializer" -> b = "intent_slot" /\ i = 1 /\ r.kind = "new"
       [] a = "intent_slot" ->
            IF r.post.values.slots_complete THEN b = "planner"
            ELSE b = END /\ r.status = "clarifying"
       [] a = "planner" -> b = "itinerary_gen"
       [] a = "itinerary_gen" -> b = "pause:review" /\ r.status = "reviewing"
       [] a = "review" ->
            /\ i = 1
            /\ ReviewPending(r.pre)
            /\ IF IsApproval(r.message) THEN b = "finalizer" ELSE b = "planner"
       [] a = "finalizer" -> b = END
       [] OTHER -> FALSE

C6_DocumentedTransitions ==
  /\ \A i \in 1..Len(last.trace) : DocumentedStep(last, i)
  /\ last.kind = "new" => Len(last.trace) >= 2 /\ last.trace[1] = "initializer"

\* Reached: a revision request went from review through planning and
\* composition back to the pause before review.
C6_Witness ==
  last.trace = <<"review", "planner", "itinerary_gen">>

\* C7: a resume at ClarificationNeeded starts at the extraction stage without
\* running the context loader, and the extraction works on the requirement set,
\* the preferences and the round counter of the checkpoint.
C7_ClarificationResume ==
  (last.kind = "resume" /\ ClarificationNeeded(last.pre)) =>
     /\ last.trace # <<>> /\ last.trace[1] = "intent_slot"
     /\ ~Ran(last.trace, "initializer")
     /\ last.post.values.user_preferences = last.pre.values.user_preferences
     /\ IF last.called_llm
        THEN /\ last.post.values.trip_request =
                  ExtractSlots(last.pre.values.trip_request,
                               last.pre.values.user_preferences,
                               last.pre.values.clarification_count, last.slot).slots
             /\ last.post.values.clarification_count =
                  last.pre.values.clarification_count + 1
        ELSE /\ last.post.values.trip_request = last.pre.values.trip_request
             /\ last.post.values.clarification_count =
                  last.pre.values.clarification_count

\* Reached: a second clarification answer was merged into a requirement set
\* that already held a field, with preferences loaded at the start.
C7_Witness ==
  /\ last.kind = "resume" /\ ClarificationNeeded(last.pre) /\ last.called_llm
  /\ last.pre.values.trip_request["destination"] = "Rome"
  /\ last.pre.values.clarification_count = 2
  /\ last.pre.values.user_preferences = RichPreferences
  /\ last.post.values.slots_complete

(***************************************************************************)
(* Properties of the requirement extraction.                               *)
(***************************************************************************)
\* What the extraction of request r supplied (nothing when it did not parse
\* or was not asked).
Supplied(r) == SlotResponse(r.slot).slots

\* C8: no request clears a filled field of the requirement set, and a filled
\* field changes only to the non-empty value the request's extraction supplied
\* for it.
C8_FilledNeverCleared ==
  last.kind # "none" =>
    \A f \in SlotFields :
      Has(last.pre.values.trip_request, f) =>
        /\ Has(last.post.values.trip_request, f)
        /\ \/ last.post.values.trip_request[f] = last.pre.values.trip_request[f]
           \/ /\ last.called_llm
              /\ Truthy(f, Supplied(last)[f])
              /\ last.post.values.trip_request[f] = Supplied(last)[f]

\* Reached: an extraction replaced the destination and omitted the budget and
\* the interests, and these kept their values.
C8_Witness ==
  /\ last.called_llm
  /\ last.pre.values.trip_request["destination"] = "Rome"
  /\ last.post.values.trip_request["destination"] = "Oslo"
  /\ last.pre.values.trip_request["budget_max"] = 1500
  /\ last.post.values.trip_request["budget_max"] = 1500
  /\ last.post.values.trip_request["interests"] = <<"food">>

\* The fields the forced completion fills, and the end date derived from them.
DefaultedFields == SlotFields \ {"interests", "constraints"}

\* Neither the session so far, nor the extraction of request r, nor the
\* preferences supplied a field that the forced completion fills.
NothingSupplied(r) ==
  /\ \A f \in DefaultedFields :
        ~Has(r.pre.values.trip_request, f) /\ ~Truthy(f, Supplied(r)[f])
  /\ ~r.post.values.user_preferences.budget_range.has
  /\ r.post.values.user_preferences.travel_style = <<>>

\* The clarification rounds of a session so far: the follow-up questions the
\* extraction stage has asked.
ClarificationRounds(messages) ==
  Cardinality({i \in 1..Len(messages) :
                 messages[i].role = "ai" /\ messages[i].content # <<"GREETING">>})

DocumentedDefaults ==
  [EmptySlots EXCEPT !["destination"] = "Tokyo, Japan", !["origin"] = "New York",
                     !["duration_days"] = 5, !["start_date"] = Today + 30,
                     !["end_date"] = Today + 30 + 5, !["budget_max"] = 2000,
                     !["travel_group"] = "solo", !["traveler_count"] = 1]

\* C9: when nothing was supplied, an extraction turn completes the requirement
\* set exactly when three clarification rounds have gone before it, and the set
\* then holds the documented defaults, the end date being start plus duration.
C9_ForcedDefaultsAfterThreeRounds ==
  (last.called_llm /\ NothingSupplied(last)) =>
     /\ last.post.values.slots_complete <=>
          ClarificationRounds(last.pre.values.messages) = 3
     /\ last.post.values.slots_complete =>
          /\ \A f \in DefaultedFields :
                last.post.values.trip_request[f] = DocumentedDefaults[f]
          /\ last.post.values.trip_request["end_date"] =
                last.post.values.trip_request["start_date"]
                  + last.post.values.trip_request["duration_days"]

\* Reached: the fourth extraction turn of a session, none of whose answers
\* supplied a field and the last of which did not parse, completed the set.
C9_Witness ==
  /\ last.called_llm /\ NothingSupplied(last)
  /\ last.post.values.slots_complete
  /\ ~last.slot.parsed
  /\ last.post.values.trip_request["interests"] = <<"hiking">>

\* The chat turns of a session: the user messages of its log.
Turns(messages) ==
  Cardinality({i \in 1..Len(messages) : messages[i].role = "user"})

\* C10: clarification is bounded: a session that has taken more turns than
\* the ceiling allows clarification rounds has a complete requirement set.
C10_ClarificationBounded ==
  (last.kind # "none" /\ Turns(last.post.values.messages) > MAX_CLARIFICATION_ROUNDS) =>
     last.post.values.slots_complete

(***************************************************************************)
(* Properties of the planning loop and the tool dispatcher.                *)
(***************************************************************************)
\* C11: a planning pass calls the text-generation service at most ten times,
\* whatever it answers and whatever the tools do; it is over after the tenth
\* call, and it then returns a strategy: the last one the service gave with a
\* stop or a tool request, the fallback when there was none.
C11_PlanningTerminates ==
  /\ planner.llm_calls <= 10
  /\ planner.pc = "loop" => planner.llm_calls < 10
  /\ planner.pc = "done" =>
       /\ ~PlanOf(planner).strategy.none
       /\ PlanOf(planner).strategy.fallback <=> planner.final_strategy.none
       /\ planner.all_tool_calls # <<>> => ~PlanOf(planner).strategy.fallback

\* Reached: a pass that took all ten rounds, in which every tool call failed.
C11_Witness ==
  /\ planner.pc = "done" /\ planner.llm_calls = 10
  /\ Len(planner.results_log) = MaxToolCalls
  /\ \A i \in 1..Len(planner.results_log) : planner.results_log[i].result.kind # "data"
  /\ PlanOf(planner).strategy.summary = "DRAFT"

AsList(v) == IF v.tag = "none" THEN <<>> ELSE IF v.tag = "one" THEN <<v.one>> ELSE v.list

\* The results of the calls to tool `name`, in call order.
RECURSIVE ResultsFor(_, _)
ResultsFor(name, log) ==
  IF log = <<>> THEN <<>>
  ELSE IF Head(log).tool_name = name
       THEN <<Head(log).result>> \o ResultsFor(name, Tail(log))
       ELSE ResultsFor(name, Tail(log))

\* C12: after a pass, what is stored under a tool name holds one result for
\* every call to that tool requested during the pass, in call order.
C12_ResultsNeverOverwritten ==
  planner.pc = "done" =>
    \A n \in ToolNames :
      AsList(planner.all_tool_results[n]) = ResultsFor(n, planner.results_log)

\* The last request for its tool name in the batch.
LastOfName(reqs, i) == \A j \in (i + 1)..Len(reqs) : reqs[j] # reqs[i]

RECURSIVE Whitelisted(_, _)
Whitelisted(reqs, i) ==
  IF i > Len(reqs) THEN <<>>
  ELSE IF reqs[i] \in {"search_flights", "search_hotels"}
       THEN <<i>> \o Whitelisted(reqs, i + 1)
       ELSE Whitelisted(reqs, i + 1)

\* C13: in a batch the dispatcher calls the lookup of every request naming
\* search_flights or search_hotels and of no other, whichever of them fail;
\* it does not raise; a request with another name leaves an unknown-tool
\* error under its name, and a lookup that raised leaves an error under its.
C13_DispatcherIsolatesFailures ==
  LET b == planner.batch
  IN b.tool_requests # <<>> =>
       /\ ~b.raised
       /\ b.invoked = Whitelisted(b.tool_requests, 1)
       /\ \A n \in ToolNames :
            (\A i \in 1..Len(b.tool_requests) : b.tool_requests[i] # n)
              => b.results[n].tag = "none"
       /\ \A i \in 1..Len(b.tool_requests) :
            LastOfName(b.tool_requests, i) =>
              /\ b.results[b.tool_requests[i]].tag = "one"
              /\ b.results[b.tool_requests[i]].one.kind =
                   IF b.tool_requests[i] \notin {"search_flights", "search_hotels"}
                   THEN "unknown_tool"
                   ELSE IF b.outcomes[i] = "raises" THEN "raised"
                   ELSE IF b.outcomes[i] = "error" THEN "error" ELSE "data"

\* Reached: a batch whose first lookup raised and whose second was still
\* called and gave its result.
C13_Witness ==
  /\ planner.batch.tool_requests = <<"search_flights", "search_hotels">>
  /\ planner.batch.outcomes = <<"raises", "ok">>
  /\ planner.batch.invoked = <<1, 2>>
  /\ planner.batch.results["search_hotels"].one.kind = "data"


(***************************************************************************)
(* Properties of the review step.                                          *)
(***************************************************************************)
\* The last request answered a session paused before review.
AnsweredReview == last.kind = "resume" /\ ReviewPending(last.read)

\* C16: an answer at the review pause that is not an approval runs review,
\* planner and itinerary_gen; review_feedback is that message, character for
\* character, in the updated state, in what the planning pass reads and at
\* the pause the run ends with.
C16_FeedbackVerbatim ==
  (AnsweredReview /\ ~IsApproval(last.message)) =>
     /\ last.trace = <<"review", "planner", "itinerary_gen">>
     /\ last.updated.values.review_feedback = last.message
     /\ RevisionContext(ReviewNode(last.updated.values)).review_feedback = last.message
     /\ ReviewPending(last.post)
     /\ last.post.values.review_feedback = last.message

\* Reached: feedback with surrounding whitespace went through a revision pass.
C16_Witness ==
  /\ AnsweredReview
  /\ last.message = PaddedMsg
  /\ RevisionContext(ReviewNode(last.updated.values)).revision
  /\ ReviewPending(last.post)
  /\ last.post.values.review_feedback = PaddedMsg

\* C17: at a review pause reached through a revision pass the review decision
\* is none again.
C17_ReviewStatusCleared ==
  (last.kind = "resume" /\ last.trace # <<>> /\ Head(last.trace) = "review"
     /\ Ran(last.trace, "planner") /\ ReviewPending(last.post)) =>
       last.post.values.review_status = ""

Blank(c) == c \in {" ", "\t", "\n"}

CasePairs ==
  {<<"A", "a">>, <<"E", "e">>, <<"G", "g">>, <<"K", "k">>, <<"O", "o">>,
   <<"S", "s">>, <<"Y", "y">>}

Affirmative ==
  { <<"a", "p", "p", "r", "o", "v", "e">>, <<"y", "e", "s">>,
    <<"l", "o", "o", "k", "s", " ", "g", "o", "o", "d">>,
    <<"c", "o", "n", "f", "i", "r", "m">>, <<"o", "k">>,
    <<"l", "g", "t", "m">>, <<"p", "e", "r", "f", "e", "c", "t">> }

SameIgnoringCase(a, b) ==
  /\ Len(a) = Len(b)
  /\ \A i \in 1..Len(a) : a[i] = b[i] \/ <<a[i], b[i]>> \in CasePairs

\* m is a token, in any letter case, between runs of whitespace.
MeansApproval(m) ==
  \E i \in 0..Len(m), j \in 0..Len(m) :
    /\ i <= j
    /\ \A k \in 1..i : Blank(m[k])
    /\ \A k \in (j + 1)..Len(m) : Blank(m[k])
    /\ \E token \in Affirmative : SameIgnoringCase(SubSeq(m, i + 1, j), token)

\* C19: an answer at the review pause is taken as approval (the finalizer
\* runs) exactly when it is one of the tokens up to letter case and surrounding
\* whitespace; any other answer is stored as revision feedback and the
\* planner runs.
C19_ApprovalTokens ==
  AnsweredReview =>
    IF MeansApproval(last.message)
    THEN /\ last.updated.values.review_status = "approved"
         /\ last.updated.values.review_feedback = <<>>
         /\ last.trace = <<"review", "finalizer">>
    ELSE /\ last.updated.values.review_status = "revision_requested"
         /\ last.updated.values.review_feedback = last.message
         /\ Ran(last.trace, "planner")
         /\ ~Ran(last.trace, "finalizer")

\* Reached: an answer that contains a token was taken as feedback, and an
\* approval in upper case between a tab and a newline was taken as approval.
C19_Witness ==
  /\ AnsweredReview
  /\ last.message = YesMsg
  /\ last.trace = <<"review", "finalizer">>
  /\ last.read.values.review_feedback = OkGoMsg

IsPrefix(s, t) == Len(s) <= Len(t) /\ SubSeq(t, 1, Len(s)) = s

\* C18: in every step, the message log of every stored session is a prefix of
\* the log after the step.
C18_LogAppendOnly ==
  [][\A w \in Workers, t \in Threads :
        IsPrefix(checkpoints[w][t].values.messages,
                 checkpoints'[w][t].values.messages)]_vars

\* The log of a request alone: what it read, what it updated, what it left.
LogGrowsWithinRequest ==
  last.kind # "none" =>
    /\ IsPrefix(last.read.values.messages, last.updated.values.messages)
    /\ IsPrefix(last.updated.values.messages, last.post.values.messages)

(***************************************************************************)
(* Properties of the finalizer.                                            *)
(***************************************************************************)
\* The documents the last request added to the trips collection.
AddedTrips == (Len(last.db_before.trips) + 1)..Len(db.trips)

AddedVersions == (Len(last.db_before.itinerary_versions) + 1)..Len(db.itinerary_versions)

\* C20: a request whose finalizer had an insert fail ends in a server error
\* and no response status; the session state keeps the identifiers it had,
\* none of them an identifier of a document the failed finalization wrote.
C20_PersistenceFailureSurfaced ==
  last.fail # 0 =>
    /\ last.error = "ServerError"
    /\ last.status # "complete"
    /\ last.post.values.trip_id = last.updated.values.trip_id
    /\ last.post.values.itinerary_version_id = last.updated.values.itinerary_version_id
    /\ last.post.values.trip_id \notin AddedTrips
    /\ last.post.values.itinerary_version_id \notin AddedVersions
    /\ last.post.values.current_node # "done"
    /\ latest[last.thread] = last.post
    /\ ResponseStatus(checkpoints[last.worker][last.thread]) # "complete"
         \/ last.updated.values.trip_id # 0

\* Reached: the third insert failed after the first two had been written, in
\* a session that had never been finalized.
C20_Witness ==
  /\ last.fail = 3
  /\ AddedTrips # {} /\ AddedVersions # {}
  /\ last.error = "ServerError"
  /\ last.post.values.trip_id = 0

\* C14: a lookup that finds an unexpired entry stored for its parameters
\* returns the stored data without calling the provider; an entry is absent
\* once its time to live has elapsed, and the provider is then called again.
C14_CacheRoundTrip ==
  /\ cache.lookup.live =>
       /\ ~cache.lookup.provider_called
       /\ cache.lookup.result = cache.lookup.entry
  /\ (cache.lookup.tool # "" /\ ~cache.lookup.live) => cache.lookup.provider_called
  /\ \A k \in CacheKeys : cache.store[k].present => cache.now < cache.store[k].expires

\* The time-to-live half of C14 alone: entries live for 900 s (flights) or
\* 1800 s (hotels) from the moment the write runs and are absent afterwards.
EntriesExpire ==
  \A k \in CacheKeys :
     cache.store[k].present =>
       /\ cache.now < cache.store[k].expires
       /\ cache.store[k].expires - cache.now
            <= (IF k[1] = "cache:flights" THEN 900 ELSE 1800)

\* C15: when the cache check is skipped for want of a client or times out,
\* and whatever happened to earlier writes, the provider is called and its
\* result is what the lookup returns; no lookup ends in an exception.
C15_CacheIsBestEffort ==
  cache.lookup.tool # "" =>
    /\ cache.lookup.result.kind # "raised"
    /\ cache.lookup.read \in {"skipped", "timeout"} =>
         /\ cache.lookup.provider_called
         /\ cache.lookup.result = ProviderResult(cache.lookup.outcome, cache.provider_calls)

\* A lookup whose read timed out after an earlier write had failed returned
\* the offers of the provider.
C15_Witness ==
  /\ cache.lookup.read = "timeout"
  /\ cache.lookup.failed_writes > 0
  /\ cache.lookup.outcome = "ok"
  /\ cache.lookup.result.kind = "data"

(***************************************************************************)
(* Properties of the responses.                                            *)
(***************************************************************************)
\* C21: a request that completes without error answers clarifying, reviewing
\* or complete, never planning: clarifying with the requirement set
\* incomplete and the graph at its end, reviewing at the pause before review,
\* complete with a trip identifier and the graph at its end.
C21_NoPlanningAtRest ==
  (last.kind # "none" /\ last.error = "") =>
     /\ last.status \in {"clarifying", "reviewing", "complete"}
     /\ last.status = "clarifying" =>
          ~last.post.values.slots_complete /\ last.post.next = {}
     /\ last.status = "reviewing" => ReviewPending(last.post)
     /\ last.status = "complete" =>
          last.post.values.trip_id # 0 /\ last.post.next = {}

\* Reached: an approval answered complete in a session whose first answer
\* was clarifying.
C21_Witness ==
  /\ last.status = "complete"
  /\ last.trace = <<"review", "finalizer">>
  /\ last.post.values.clarification_count > 0

\* The first message of a new session supplied destination, origin, duration,
\* start date and maximum budget, for a user without stored preferences.
SuppliedTheFive ==
  /\ last.kind = "new" /\ last.called_llm
  /\ last.post.values.user_preferences = EmptyPreferences
  /\ RequiredFilled(Supplied(last))
  /\ ~Has(Supplied(last), "travel_group")
  /\ ~Has(Supplied(last), "traveler_count")
  /\ ~Has(Supplied(last), "end_date")

\* C22: such a request leaves slots_complete true, travel group solo, one
\* traveler and end date = start date + duration; it answers planning or
\* reviewing, and at reviewing the itinerary has as many days as the duration.
C22_EndToEnd ==
  SuppliedTheFive =>
    /\ last.post.values.slots_complete
    /\ last.post.values.trip_request["travel_group"] = "solo"
    /\ last.post.values.trip_request["traveler_count"] = 1
    /\ last.post.values.trip_request["end_date"] =
         Supplied(last)["start_date"] + Supplied(last)["duration_days"]
    /\ last.status \in {"planning", "reviewing"}
    /\ last.status = "reviewing" =>
         Len(last.post.values.itinerary.days) = Supplied(last)["duration_days"]

\* The part of C22 before the itinerary: requirement set and status.
EndToEndUpToReview ==
  SuppliedTheFive =>
    /\ last.post.values.slots_complete
    /\ last.post.values.trip_request["travel_group"] = "solo"
    /\ last.post.values.trip_request["traveler_count"] = 1
    /\ last.post.values.trip_request["end_date"] =
         Supplied(last)["start_date"] + Supplied(last)["duration_days"]
    /\ last.status = "reviewing"
    /\ last.trace = <<"initializer", "intent_slot", "planner", "itinerary_gen">>

\* C23: a finished planning pass returns the draft of the last answer that
\* parsed, and the fallback strategy exactly when no answer parsed.
C23_LastParsedDraft ==
  planner.pc = "done" =>
    PlanOf(planner).strategy =
      IF planner.last_parsed.none THEN FallbackStrategy ELSE planner.last_parsed

\* What the loop does keep: the draft of the last answer that set stop or
\* requested at least one tool.
LastKeptDraft ==
  planner.pc = "done" =>
    /\ PlanOf(planner).strategy.fallback <=> planner.final_strategy.none
    /\ planner.last_parsed.none => PlanOf(planner).strategy.fallback
    /\ PlanOf(planner).strategy.summary # "IDLE"

(***************************************************************************)
(* Properties of the completeness check and the derived fields.            *)
(***************************************************************************)
\* The requirement set and the round counter a request's extraction started from.
Before(r) == IF r.kind = "new" THEN EmptySlots ELSE r.updated.values.trip_request

RoundsBefore(r) == IF r.kind = "new" THEN 0 ELSE r.updated.values.clarification_count

\* Field f is present once the extraction of r is merged: collected before,
\* supplied now, or the maximum budget of the stored preferences.
PresentAfterMerge(r, f) ==
  \/ Has(Before(r), f)
  \/ Has(Supplied(r), f)
  \/ f = "budget_max" /\ r.post.values.user_preferences.budget_range.has

TheFive == {"destination", "origin", "start_date", "duration_days", "budget_max"}

\* C24: after an extraction slots_complete holds exactly when the five
\* required fields are present in the merged set or the round counter had
\* reached the ceiling, whatever the completeness flag of the answer says;
\* and then travel group and traveler count are filled.
C24_CompletenessFromFields ==
  last.called_llm =>
    /\ last.post.values.slots_complete <=>
         \/ \A f \in TheFive : PresentAfterMerge(last, f)
         \/ RoundsBefore(last) >= 3
    /\ last.post.values.slots_complete =>
         /\ Has(last.post.values.trip_request, "travel_group")
         /\ Has(last.post.values.trip_request, "traveler_count")

\* Reached: the answer's flag said complete and the set was left incomplete;
\* the flag said incomplete and the set was complete.
C24_Witness ==
  /\ last.called_llm
  /\ ~last.slot.is_complete /\ last.post.values.slots_complete
  /\ RoundsBefore(last) < 3
  /\ \E i \in 1..Len(last.post.values.messages) :
        last.post.values.messages[i] = AiMsg("MORE_DETAILS")

RuleCount(group) ==
  CASE group = "solo" -> 1 [] group = "couple" -> 2 [] group = "family" -> 4
    [] group = "friends" -> 4 [] OTHER -> 0

\* The traveler count was never supplied in the session of the last request.
CountNeverSupplied == "traveler_count" \notin last.ever[last.thread]

\* C25: whenever an extraction leaves the requirement set complete and the
\* traveler count was never supplied, the count is the one the rule gives for
\* the travel group (solo 1, couple 2, family 4, friends 4).
C25_TravelerCountFromGroup ==
  (last.called_llm /\ last.post.values.slots_complete /\ CountNeverSupplied
     /\ last.post.values.trip_request["travel_group"]
          \in {"solo", "couple", "family", "friends"}) =>
    last.post.values.trip_request["traveler_count"] =
      RuleCount(last.post.values.trip_request["travel_group"])

\* The same on the normal path alone: the set became complete before the
\* round counter had reached the ceiling.
CountFromGroupBelowCeiling ==
  (last.called_llm /\ last.post.values.slots_complete /\ CountNeverSupplied
     /\ last.post.values.clarification_count <= 3) =>
    last.post.values.trip_request["traveler_count"] =
      RuleCount(last.post.values.trip_request["travel_group"])

\* Start date and duration are present after the last request's extraction,
\* the start date is a date, and no extraction of the session supplied an
\* end date.
EndDateOwed ==
  /\ last.called_llm
  /\ Has(last.post.values.trip_request, "start_date")
  /\ ParsesAsDate(last.post.values.trip_request["start_date"])
  /\ Has(last.post.values.trip_request, "duration_days")
  /\ "end_date" \notin last.ever[last.thread]

\* C26: after every extraction turn, when start date and duration are present
\* and no end date was ever supplied, end_date = start_date + duration_days.
C26_EndDateDerived ==
  EndDateOwed =>
    last.post.values.trip_request["end_date"] =
      last.post.values.trip_request["start_date"]
        + last.post.values.trip_request["duration_days"]

\* C26 for complete requirement sets only.
EndDateDerivedWhenComplete ==
  (EndDateOwed /\ last.post.values.slots_complete) =>
    last.post.values.trip_request["end_date"] =
      last.post.values.trip_request["start_date"]
        + last.post.values.trip_request["duration_days"]

\* The last request's extraction output did not parse.
ParseFailed == last.called_llm /\ ~last.slot.parsed

\* The fields collected before the last request are as they were.
CollectedFieldsKept ==
  \A f \in SlotFields :
    Has(Before(last), f) => last.post.values.trip_request[f] = Before(last)[f]

\* The answer of the last request is the generic follow-up question.
GenericFollowUp ==
  /\ ~last.post.values.slots_complete
  /\ last.post.next = {}
  /\ last.post.values.messages[Len(last.post.values.messages)] = AiMsg("TROUBLE")

\* C27 as stated: whatever the round count, an extraction output that does
\* not parse gives no error, isComplete false with the generic follow-up
\* question, and the collected fields as they were.
C27_ParseFailureEveryRound ==
  ParseFailed => (last.error = "" /\ GenericFollowUp /\ CollectedFieldsKept)

\* C27 amended: an extraction output that does not parse gives no error and
\* keeps the collected fields; it gives isComplete false with the generic
\* follow-up question exactly when the round counter is below the ceiling and
\* one of the five required fields is still missing; otherwise the set is
\* complete.
C27_ParseFailureBelowCeiling ==
  ParseFailed =>
    /\ last.error = ""
    /\ CollectedFieldsKept
    /\ last.post.values.clarification_count = RoundsBefore(last) + 1
    /\ IF RoundsBefore(last) < 3 /\ (\E f \in TheFive : ~PresentAfterMerge(last, f))
       THEN GenericFollowUp
       ELSE last.post.values.slots_complete

\* Reached: the third answer of a session did not parse, with a destination
\* collected before; and (in another state) the fourth did not parse.
C27_Witness ==
  /\ ParseFailed /\ RoundsBefore(last) = 2
  /\ Before(last)["destination"] = "Rome"
  /\ GenericFollowUp

RepeatedOnBackfilledSet ==
  /\ last.repeated /\ RoundsBefore(last) < MAX_CLARIFICATION_ROUNDS
  /\ Has(SlotResponse(last.slot).slots, "start_date")
  /\ ~Has(SlotResponse(last.slot).slots, "travel_group")
  /\ Has(last.post.values.trip_request, "travel_group")

\* The last request ran the review stage; it read the state the request's
\* update had produced.
RanReview == last.trace # <<>> /\ Head(last.trace) = "review"

\* Decision values a state may hold when the review stage reads it: the two
\* the endpoint patches in, none, and values it never writes.
DecisionValues == {"", "approved", "revision_requested", "Approved", "rejected"}

WithDecision(state, decision) == [state EXCEPT !.review_status = decision]

\* The review stage and its router on one state.
GateRoutesOn(state) ==
  /\ ReviewNode(state).itinerary = state.itinerary
  /\ ReviewNode(state).trip_strategy = state.trip_strategy
  /\ ReviewNode(state).trip_request = state.trip_request
  /\ ReviewNode(state).review_feedback = state.review_feedback
  /\ IF state.review_status = "approved"
     THEN /\ RouteAfterReview(ReviewNode(state)) = "finalizer"
          /\ ReviewNode(state).review_status = "approved"
     ELSE /\ RouteAfterReview(ReviewNode(state)) = "planner"
          /\ ReviewNode(state).review_status = "revision_requested"

\* C29: the review stage routes on the decision field as patched in.  It is
\* followed by the finalizer exactly when review_status is "approved"; for any
\* other value, the empty one included, it is followed by the planner, the
\* decision is recorded as revision_requested and the feedback is the patched
\* one; the stage changes neither the itinerary nor the strategy.  Stated of
\* the stage on the state a request patched, with every decision value in the
\* place of the patched one, and of the run that followed.
C29_ReviewGateRoutesOnDecision ==
  RanReview =>
    /\ \A d \in DecisionValues : GateRoutesOn(WithDecision(last.updated.values, d))
    /\ IF last.updated.values.review_status = "approved"
       THEN /\ last.trace = <<"review", "finalizer">>
            /\ last.post.values.itinerary = last.updated.values.itinerary
            /\ last.post.values.trip_strategy = last.updated.values.trip_strategy
       ELSE /\ last.trace = <<"review", "planner", "itinerary_gen">>
            /\ last.post.values.review_status = "revision_requested"
            /\ last.post.values.review_feedback = last.updated.values.review_feedback

\* Reached: the review stage ran on a patched state that held a draft and
\* feedback, and the run went back to planning with that feedback.
C29_Witness ==
  /\ RanReview
  /\ last.updated.values.review_status = "revision_requested"
  /\ last.updated.values.review_feedback = PaddedMsg
  /\ last.updated.values.itinerary # EmptyItinerary
  /\ last.trace = <<"review", "planner", "itinerary_gen">>
  /\ last.post.values.review_feedback = PaddedMsg

\* The last request ran the finalizer and none of its inserts failed.
Finalized == Ran(last.trace, "finalizer") /\ last.fail = 0

\* The collection holds the documents it held before and one more.
OneMore(before, after) ==
  /\ Len(after) = Len(before) + 1
  /\ SubSeq(after, 1, Len(before)) = before

\* C30: a successful finalization adds exactly one trip, one itinerary version
\* with version number 1 that references that trip, and one conversation that
\* references that trip, to what the collections held; the state it returns
\* holds the identifiers of that trip and of that version, and the trip's
\* identifier is one no earlier trip has.
C30_FinalizationWritesOneOfEach ==
  Finalized =>
    /\ OneMore(last.db_before.trips, db.trips)
    /\ OneMore(last.db_before.itinerary_versions, db.itinerary_versions)
    /\ OneMore(last.db_before.conversations, db.conversations)
    /\ db.itinerary_versions[Len(db.itinerary_versions)].version_number = 1
    /\ db.itinerary_versions[Len(db.itinerary_versions)].trip_id
         = db.trips[Len(db.trips)].id
    /\ db.conversations[Len(db.conversations)].trip_id = db.trips[Len(db.trips)].id
    /\ last.post.values.trip_id = db.trips[Len(db.trips)].id
    /\ last.post.values.itinerary_version_id
         = db.itinerary_versions[Len(db.itinerary_versions)].id
    /\ \A i \in 1..Len(last.db_before.trips) :
         last.db_before.trips[i].id # db.trips[Len(db.trips)].id
    /\ last.error = ""

\* Reached: a finalization succeeded after an earlier one had failed at its
\* second insert, so that the collections held a trip without a version.
C30_Witness ==
  /\ Finalized
  /\ Len(last.db_before.trips) > Len(last.db_before.itinerary_versions)
  /\ last.post.values.trip_id # last.post.values.itinerary_version_id
  /\ last.status = "complete"

(***************************************************************************)
(* Properties of the stage marker and of the preference snapshot.           *)
(***************************************************************************)
\* The last request ended without error at a pause for clarification.
PausedForClarification ==
  last.kind # "none" /\ last.error = "" /\ ClarificationNeeded(last.post)

\* The last request ended without error at the pause before review.
PausedBeforeReview ==
  last.kind # "none" /\ last.error = "" /\ ReviewPending(last.post)

\* C31: at every pause the stage marker current_node of the checkpoint names
\* the stage the session resumes at: intent_slot at a pause for
\* clarification, review at the pause before review.
C31_MarkerNamesResumeStage ==
  /\ PausedForClarification => last.post.values.current_node = "intent_slot"
  /\ PausedBeforeReview =>
       last.post.values.current_node = "review"

\* What holds: the marker names intent_slot at a pause for clarification, and
\* at the pause before review it is the "finalizer" that itinerary_gen wrote,
\* while the checkpoint's next stage is review.
MarkerAtPauses ==
  /\ PausedForClarification => last.post.values.current_node = "intent_slot"
  /\ PausedBeforeReview =>
       /\ last.post.values.current_node = "finalizer"
       /\ last.post.next = {"review"}

\* C32: the preference snapshot is written by the initializer at session
\* start only.  After a new session's first request it is what the user has
\* stored; a resuming request's update and run, whatever stages they go
\* through, leave it as the checkpoint held it.
C32_PreferencesReadOnly ==
  /\ (last.kind = "new" /\ last.post.exists) =>
       last.post.values.user_preferences
         = UserPreferencesOf(last.post.values.user_id)
  /\ (last.kind = "resume" /\ last.pre.exists /\ last.post.exists) =>
       /\ last.updated.values.user_preferences = last.pre.values.user_preferences
       /\ last.post.values.user_preferences = last.pre.values.user_preferences

\* Reached: a session of a user with stored preferences was finalized by a
\* resuming request, with interests backfilled from the snapshot.
C32_Witness ==
  /\ last.kind = "resume"
  /\ Ran(last.trace, "finalizer")
  /\ last.post.values.user_preferences = RichPreferences
  /\ last.post.values.trip_request["interests"] = RichPreferences.interests
  /\ last.post.values.clarification_count > 1

(***************************************************************************)
(* Properties of the cache keys.                                           *)
(***************************************************************************)
\* The parameters of a build that are not None, whatever their order.
NonNullOf(kwargs) == {kwargs[i] : i \in {j \in 1..Len(kwargs) : kwargs[j][2] # None}}

HexSet == {HexChars[i] : i \in 1..Len(HexChars)}

KeyFormed(built) ==
  /\ Len(built.key) = 3
  /\ built.key[1] = "cache"
  /\ built.key[2] = built.prefix
  /\ Len(built.key[3]) = 16
  /\ \A i \in 1..16 : built.key[3][i] \in HexSet

SameInputs(a, b) ==
  /\ a.builder = b.builder
  /\ a.prefix = b.prefix
  /\ NonNullOf(a.kwargs) = NonNullOf(b.kwargs)

KeysTellInputsApart ==
  \A i, j \in 1..Len(cache.keys) :
    (cache.keys[i].builder = cache.keys[j].builder
       /\ cache.keys[i].key = cache.keys[j].key) =>
      SameInputs(cache.keys[i], cache.keys[j])

(***************************************************************************)
(* Properties of failed requests and of the stored records.                 *)
(***************************************************************************)
\* C34: a resuming request that ends in an error leaves the checkpoint of its
\* thread as it was before the request: the log without the request's
\* message, the review decision and the next stage unchanged.
C34_ErrorLeavesCheckpoint ==
  (last.kind = "resume" /\ last.error = "ServerError") =>
    /\ checkpoints[last.worker][last.thread].values.messages = last.pre.values.messages
    /\ checkpoints[last.worker][last.thread].values.review_status
         = last.pre.values.review_status
    /\ checkpoints[last.worker][last.thread].next = last.pre.next
    /\ checkpoints[last.worker][last.thread] = last.pre

\* What holds: after a finalizer failure the checkpoint is the one the review
\* stage saved, with the request's message, the approval and finalizer next.
FailureKeepsUpdate ==
  (last.kind = "resume" /\ last.fail # 0) =>
    /\ last.error = "ServerError"
    /\ checkpoints[last.worker][last.thread].values = ReviewNode(last.updated.values)
    /\ checkpoints[last.worker][last.thread].values.review_status = "approved"
    /\ checkpoints[last.worker][last.thread].next = {"finalizer"}
    /\ IsPrefix(last.pre.values.messages \o <<UserMsg(last.message)>>,
                checkpoints[last.worker][last.thread].values.messages)

\* C35: over the life of a session at most one trip record is persisted for
\* it: the trips collection holds no more records than sessions were started.
C35_OneTripPerSession == Len(db.trips) <= Cardinality(issued)

\* What holds: every trip record was written by a finalizer run, one a run.
OneTripPerFinalization ==
  /\ Len(db.trips) <= Len(last.db_before.trips) + 1
  /\ Len(db.trips) > Len(last.db_before.trips) => Ran(last.trace, "finalizer")

\* C36: in every state, every persisted trip record has an itinerary-version
\* record and a conversation record that reference it.
C36_TripsAreWhole ==
  \A i \in 1..Len(db.trips) :
    /\ \E j \in 1..Len(db.itinerary_versions) :
         db.itinerary_versions[j].trip_id = db.trips[i].id
    /\ \E j \in 1..Len(db.conversations) :
         db.conversations[j].trip_id = db.trips[i].id

\* What holds: a finalizer whose insert number n failed has left the records
\* of the inserts before it.
FailureLeavesEarlierInserts ==
  /\ last.fail = 1 => db = last.db_before
  /\ last.fail = 2 =>
       /\ Len(db.trips) = Len(last.db_before.trips) + 1
       /\ db.itinerary_versions = last.db_before.itinerary_versions
       /\ db.conversations = last.db_before.conversations
  /\ last.fail = 3 =>
       /\ Len(db.trips) = Len(last.db_before.trips) + 1
       /\ Len(db.itinerary_versions) = Len(last.db_before.itinerary_versions) + 1
       /\ db.conversations = last.db_before.conversations

(***************************************************************************)
(* Properties of the fallback itinerary.                                    *)
(***************************************************************************)
\* C37: a run whose itinerary synthesis did not parse ends without error at
\* the pause before review, with an itinerary that has no days, titled by the
\* destination and costed at the budget; and an approval at a pause whose
\* draft has no days persists that draft and completes the session.
C37_FallbackItineraryReviewed ==
  /\ last.synthesis_failed =>
       /\ last.error = "" /\ last.status = "reviewing"
       /\ ReviewPending(last.post)
       /\ last.trace[Len(last.trace)] = "itinerary_gen"
       /\ last.post.values.itinerary.days = <<>>
       /\ last.post.values.itinerary.title
            = <<"Trip to", last.post.values.trip_request["destination"]>>
       /\ last.post.values.itinerary.total_cost_estimate
            = last.post.values.trip_request["budget_max"]
  /\ (AnsweredReview /\ IsApproval(last.message)
        /\ last.pre.values.itinerary.days = <<>>) =>
       /\ last.trace = <<"review", "finalizer">>
       /\ last.status = "complete"
       /\ Len(db.itinerary_versions) = Len(last.db_before.itinerary_versions) + 1
       /\ db.itinerary_versions[Len(db.itinerary_versions)].itinerary
            = last.pre.values.itinerary
       /\ db.itinerary_versions[Len(db.itinerary_versions)].itinerary.days = <<>>

\* Reached: an approval persisted a fallback itinerary.
C37_Witness ==
  /\ AnsweredReview /\ IsApproval(last.message)
  /\ last.pre.values.itinerary.fallback
  /\ last.pre.values.itinerary.days = <<>>
  /\ last.status = "complete"
  /\ db.itinerary_versions[Len(db.itinerary_versions)].itinerary.fallback

\* Reached: a run whose synthesis did not parse paused before review.
FallbackPaused == last.synthesis_failed /\ ReviewPending(last.post)

(***************************************************************************)
(* Properties of what the cache holds.                                      *)
(***************************************************************************)
\* A value that a lookup of this key's prefix may store: offers, or for
\* flights an empty list of offers.
Storable(key, value) ==
  \/ value.kind = "data"
  \/ value.kind = "empty" /\ key[1] = Prefix("search_flights")

\* The last lookup returned an error result, or was a hotel lookup that found
\* no hotels.
ReturnedNothingToStore ==
  /\ cache.lookup.tool # "" /\ cache.lookup.provider_called
  /\ \/ cache.lookup.outcome = "error"
     \/ cache.lookup.outcome = "empty" /\ cache.lookup.tool = "search_hotels"

\* C38: the cache never holds, and no write on its way holds, an error result
\* or a hotel result without hotels; the result of a lookup that returned one
\* is in no entry and in no write on its way; and a lookup that finds no live
\* entry for its parameters calls the provider.
C38_OnlySuccessesStored ==
  /\ \A k \in CacheKeys : cache.store[k].present => Storable(k, cache.store[k].value)
  /\ \A i \in 1..Len(cache.scheduled) :
       cache.scheduled[i].op = "set" =>
         Storable(cache.scheduled[i].key, cache.scheduled[i].value)
  /\ ReturnedNothingToStore =>
       /\ \A k \in CacheKeys : cache.store[k].value # cache.lookup.result
       /\ \A i \in 1..Len(cache.scheduled) :
            cache.scheduled[i].value # cache.lookup.result
  /\ (cache.lookup.tool # "" /\ ~cache.lookup.live) => cache.lookup.provider_called

\* Reached: a hotel lookup with a cache client found no hotels, the event loop
\* has run everything handed to it, and the cache has no entry for the
\* lookup's parameters.
C38_Witness ==
  /\ ReturnedNothingToStore
  /\ cache.lookup.tool = "search_hotels" /\ cache.lookup.outcome = "empty"
  /\ cache.lookup.client
  /\ cache.scheduled = <<>>
  /\ ~cache.store[BuildCacheKey(cache.lookup.tool, cache.lookup.params)].present

\* Reached: a second lookup with the parameters of one that had returned an
\* error called the provider again.
ProviderCalledAgain ==
  /\ cache.lookups = 2 /\ cache.provider_calls = 2
  /\ cache.lookup.provider_called
  /\ ~cache.lookup.live

\* C4: whichever worker handles a resume, the snapshot it reads (state and
\* next-stage marker) is the checkpoint the session's latest request ended with.
C4_ResumeInAnyWorker ==
  (last.kind = "resume" /\ last.latest_before.exists) =>
     last.read = last.latest_before

\* C5: a request that overlapped another request of its thread which was
\* applied is itself refused with ConcurrentModification.
C5_ConcurrentModificationDetected ==
  last.lost_race => last.error = "ConcurrentModification"

====
